---- MODULE Spec2Model ----
(***************************************************************************)
(* The Connect4 rules engine of src/js/connect4.js (class Connect4, lines  *)
(* 558-943): grid, move log, status, move / undo / reset and the events    *)
(* each call dispatches.                                                   *)
(*                                                                         *)
(* The engine operations are operators on an engine record `e` (the        *)
(* private fields of the class) and return the engine after the call, the  *)
(* value returned to the caller and the events dispatched during the call. *)
(* The actions apply them to the state variables.                          *)
(***************************************************************************)
EXTENDS Integers, Sequences, FiniteSets, TLC

(***************************************************************************)
(* Program constants                                                       *)
(***************************************************************************)
\* `count >= 4` in #checkDirection
WinLength == 4

\* an empty cell of #board (reset fills the grid with 0)
Empty == 0

\* #winner = null
NoWinner == 0

\* const directions = [[0,1],[1,0],[1,1],[1,-1]] in #checkWin
directions == << <<0, 1>>, <<1, 0>>, <<1, 1>>, <<1, -1>> >>

(***************************************************************************)
(* Bounds of the exploration                                               *)
(***************************************************************************)
\* the boards constructed, <<rows, columns>>
Boards == { <<4, 2>>, <<2, 5>>, <<4, 3>>, <<4, 4>> }

\* no move is requested once the log holds this many entries
MaxMoves == 13

\* On the larger boards the first moves requested follow one of these
\* column sequences; after an opening has been played out every column is
\* requested.  The smaller boards are explored without restriction.
Openings(r, c) ==
  IF r = 4 /\ c = 4
  THEN { <<1, 1, 2, 3, 3, 2, 3>>, <<0, 2, 2, 1, 3, 3, 0>>, <<0, 3, 3, 3, 0, 2, 3>> }
  ELSE IF r = 4 /\ c = 3 THEN { <<0, 1, 2, 0>> }
  ELSE IF r = 2 /\ c = 5 THEN { <<0, 0, 1, 1>> }
  ELSE { <<>> }

\* the boards constructed where callbacks are registered
EventBoards == { <<2, 2>>, <<4, 2>> }

\* no callback is registered once the engine holds this many
MaxListeners == 3

\* the callbacks registered: one that does nothing to the engine, one that
\* removes, and one that adds, the first for the kind being dispatched
Handlers == { "plain", "unsubscriber", "subscriber" }

\* the event names for which a registration is requested ("tick" is not an
\* event of the engine)
RequestedKinds == { "move", "undo", "tick" }

VARIABLES
  rows,              \* #rows
  columns,           \* #columns
  board,             \* #board: board[row][column] \in {0, 1, 2}
  moveHistory,       \* #moveHistory: the move log
  winningPositions,  \* #winningPositions
  gameOver,          \* #gameOver
  isDrawn,           \* #isDrawn
  winner,            \* #winner (NoWinner for null)
  eventListeners,    \* #eventListeners: per kind, the callbacks in insertion order
  called,            \* the last call made on the engine
  returned,          \* what that call returned
  events,            \* the events that call dispatched, in order
  held,              \* the object the caller holds from that call, with
                     \* the parts of it that are objects of the engine
  settings,          \* SettingsManager.#settings: the wins and the draws
  view               \* what the page shows: the tokens in the cells of the
                     \* board element, and the preview of the controller

vars == << rows, columns, board, moveHistory, winningPositions, gameOver,
           isDrawn, winner, eventListeners, called, returned, events,
           held, settings, view >>

\* the private fields of the engine, as one record
Engine ==
  [ rows |-> rows, columns |-> columns, board |-> board,
    moveHistory |-> moveHistory, winningPositions |-> winningPositions,
    gameOver |-> gameOver, isDrawn |-> isDrawn, winner |-> winner,
    eventListeners |-> eventListeners ]

\* the value `null` where a MoveResult is expected, and the payload of an
\* event dispatched without data
NullResult ==
  [ row |-> -1, column |-> -1, player |-> 0, type |-> "null",
    winningPositions |-> <<>> ]

(***************************************************************************)
(* Queries                                                                 *)
(***************************************************************************)
\* the turn taken from the log length plus one
getCurrentPlayer_offByOne(e) == ((Len(e.moveHistory) + 1) % 2) + 1

getCurrentPlayer(e) == (Len(e.moveHistory) % 2) + 1

isValidMove(e, column) ==
  column >= 0 /\ column < e.columns /\ e.board[0][column] = Empty

RECURSIVE lowestEmptyFrom(_, _, _)
\* the loop of getLowestEmptyRow, entered at `row`; for a column outside
\* the row the cell read is undefined, which is not 0
lowestEmptyFrom(e, column, row) ==
  IF row < 0 THEN -1
  ELSE IF column \in 0..(e.columns - 1) /\ e.board[row][column] = Empty THEN row
  ELSE lowestEmptyFrom(e, column, row - 1)

\* the top row when it is empty, without the scan from the bottom
getLowestEmptyRow_fromTop(e, column) ==
  IF e.board[0][column] = Empty THEN 0 ELSE -1

getLowestEmptyRow(e, column) == lowestEmptyFrom(e, column, e.rows - 1)

getLastMove(e) ==
  IF Len(e.moveHistory) = 0 THEN NullResult
  ELSE e.moveHistory[Len(e.moveHistory)]

isValidCell(e, row, col) ==
  row >= 0 /\ row < e.rows /\ col >= 0 /\ col < e.columns

(***************************************************************************)
(* Win detection                                                           *)
(***************************************************************************)
RECURSIVE scan_anyToken(_, _, _, _, _, _)
\* the loop without the test of the owner: it runs over every token
scan_anyToken(e, player, r, c, dr, dc) ==
  IF isValidCell(e, r, c) /\ e.board[r][c] # Empty
  THEN << [row |-> r, col |-> c] >> \o scan_anyToken(e, player, r + dr, c + dc, dr, dc)
  ELSE << >>

RECURSIVE scan(_, _, _, _, _, _)
\* one `while` loop of #checkDirection / #getWinningPositions: the cells
\* visited from (r, c) in steps of (dr, dc) while they hold `player`
scan(e, player, r, c, dr, dc) ==
  IF isValidCell(e, r, c) /\ e.board[r][c] = player
  THEN << [row |-> r, col |-> c] >> \o scan(e, player, r + dr, c + dc, dr, dc)
  ELSE << >>

\* the line cut to its first four cells
getWinningPositions_clipped(e, row, col, dr, dc) ==
  LET player == e.board[row][col]
      line   == << [row |-> row, col |-> col] >>
                  \o scan(e, player, row + dr, col + dc, dr, dc)
                  \o scan(e, player, row - dr, col - dc, -dr, -dc)
  IN  SubSeq(line, 1, 4)

getWinningPositions(e, row, col, dr, dc) ==
  LET player == e.board[row][col]
  IN  << [row |-> row, col |-> col] >>
        \o scan(e, player, row + dr, col + dc, dr, dc)
        \o scan(e, player, row - dr, col - dc, -dr, -dc)

\* the count of the first loop only
countDirection_forwardOnly(e, row, col, dr, dc) ==
  LET player == e.board[row][col]
  IN  1 + Len(scan(e, player, row + dr, col + dc, dr, dc))

\* the `count` of #checkDirection
countDirection(e, row, col, dr, dc) ==
  LET player == e.board[row][col]
  IN  1 + Len(scan(e, player, row + dr, col + dc, dr, dc))
        + Len(scan(e, player, row - dr, col - dc, -dr, -dc))

\* #checkDirection: whether the axis holds a run, and #winningPositions after
checkDirection(e, row, col, dr, dc) ==
  IF countDirection(e, row, col, dr, dc) >= WinLength
  THEN [ found |-> TRUE,
         winningPositions |-> getWinningPositions(e, row, col, dr, dc) ]
  ELSE [ found |-> FALSE, winningPositions |-> e.winningPositions ]

\* every axis tested, the last one found leaving its line
checkWin_lastAxis(e, row, col) ==
  LET hits == { i \in 1..Len(directions) :
                  checkDirection(e, row, col, directions[i][1], directions[i][2]).found }
  IN  IF hits = {}
      THEN [ found |-> FALSE, winningPositions |-> e.winningPositions ]
      ELSE LET i == CHOOSE j \in hits : \A k \in hits : j >= k
           IN  checkDirection(e, row, col, directions[i][1], directions[i][2])

\* #checkWin: directions.some(...) stops at the first axis that is found
checkWin(e, row, col) ==
  LET hits == { i \in 1..Len(directions) :
                  checkDirection(e, row, col, directions[i][1], directions[i][2]).found }
  IN  IF hits = {}
      THEN [ found |-> FALSE, winningPositions |-> e.winningPositions ]
      ELSE LET i == CHOOSE j \in hits : \A k \in hits : j <= k
           IN  checkDirection(e, row, col, directions[i][1], directions[i][2])

(***************************************************************************)
(* Event listeners                                                         *)
(***************************************************************************)
\* the keys of #eventListeners
Kinds == { "move", "win", "draw", "reset", "undo" }

\* #eventListeners as initialised: an empty Set for every kind.  A Set is
\* the sequence of its members in insertion order.
noListeners == [ k \in Kinds |-> << >> ]

isMember(set, callback) == \E i \in 1..Len(set) : set[i] = callback

\* the callback appended without the test of membership a Set makes
addEventListener_appendsAgain(e, event, callback) ==
  IF event \in DOMAIN e.eventListeners
  THEN [ e EXCEPT !.eventListeners[event] = Append(@, callback) ]
  ELSE e

addEventListener(e, event, callback) ==
  IF event \in DOMAIN e.eventListeners
  THEN IF isMember(e.eventListeners[event], callback)
       THEN e
       ELSE [ e EXCEPT !.eventListeners[event] = Append(@, callback) ]
  ELSE e

removeEventListener(e, event, callback) ==
  IF event \in DOMAIN e.eventListeners
  THEN [ e EXCEPT !.eventListeners[event] = SelectSeq(@, LAMBDA h : h # callback) ]
  ELSE e

\* `callback(data)`: the engine after callback h has run for `event`
callback(h, e, event) ==
  IF h = "unsubscriber" THEN removeEventListener(e, event, "plain")
  ELSE IF h = "subscriber" THEN addEventListener(e, event, "plain")
  ELSE e

\* what the accessors isGameOver, isDraw, winner and winningPositions return
status(e) ==
  [ isGameOver |-> e.gameOver, isDraw |-> e.isDrawn, winner |-> e.winner,
    winningPositions |-> e.winningPositions ]

RECURSIVE dispatchFrom(_, _, _, _)
\* the for...of loop of #dispatchEvent over the Set itself, the iterator
\* having passed `visited` of its members: a member added during the loop
\* is reached, a member removed before the iterator reaches it is not
dispatchFrom(e, event, visited, invoked) ==
  LET set == e.eventListeners[event] IN
  IF visited >= Len(set)
  THEN [ engine |-> e, invoked |-> invoked ]
  ELSE
    LET h      == set[visited + 1]
        after  == callback(h, e, event)
        passed == { i \in 1..(visited + 1) : isMember(after.eventListeners[event], set[i]) }
    IN  dispatchFrom(after, event, Cardinality(passed), Append(invoked, h))

\* #dispatchEvent(event, data): the engine afterwards and the record of the
\* dispatch: the payload as it is at that moment, the status the accessors
\* report to the callbacks, the callbacks registered when the dispatch
\* started and the callbacks invoked, in order
dispatchEvent(e, event, data) ==
  LET loop == dispatchFrom(e, event, 0, << >>)
  IN  [ engine |-> loop.engine,
        event  |-> [ kind |-> event, data |-> data, seen |-> status(e),
                     subscribed |-> e.eventListeners[event],
                     invoked |-> loop.invoked ] ]

(***************************************************************************)
(* Operations                                                              *)
(***************************************************************************)
emptyBoard(r, c) == [ row \in 0..(r - 1) |-> [ col \in 0..(c - 1) |-> Empty ] ]

\* reset without clearing #winner
reset_keepsWinner(e) ==
  LET cleared == [ e EXCEPT !.board = emptyBoard(e.rows, e.columns),
                            !.moveHistory = << >>,
                            !.winningPositions = << >>,
                            !.gameOver = FALSE,
                            !.isDrawn = FALSE ]
      d       == dispatchEvent(cleared, "reset", NullResult)
  IN  [ engine |-> d.engine, result |-> NullResult, events |-> << d.event >> ]

reset(e) ==
  LET cleared == [ e EXCEPT !.board = emptyBoard(e.rows, e.columns),
                            !.moveHistory = << >>,
                            !.winningPositions = << >>,
                            !.gameOver = FALSE,
                            !.isDrawn = FALSE,
                            !.winner = NoWinner ]
      d       == dispatchEvent(cleared, "reset", NullResult)
  IN  [ engine |-> d.engine, result |-> NullResult, events |-> << d.event >> ]

\* new Connect4(rows, columns)
constructor(r, c) ==
  reset([ rows |-> r, columns |-> c, board |-> << >>, moveHistory |-> << >>,
          winningPositions |-> << >>, gameOver |-> FALSE, isDrawn |-> FALSE,
          winner |-> NoWinner, eventListeners |-> noListeners ])

\* the guard without the test of #gameOver
rejects_ignoresGameOver(e, column) == ~isValidMove(e, column)

\* the guard of makeMove
rejects(e, column) == e.gameOver \/ ~isValidMove(e, column)

\* the board taken as filled one entry early
boardFilled_oneEarly(e) == Len(e.moveHistory) = e.rows * e.columns - 1

\* the log compared with one entry more than the board has cells
boardFilled_oneLate(e) == Len(e.moveHistory) = e.rows * e.columns + 1

\* `this.#moveHistory.length === this.#rows * this.#columns` in makeMove
boardFilled(e) == Len(e.moveHistory) = e.rows * e.columns

\* the two tests of the status in the other order
settle_drawFirst(pushed, result) ==
  LET d1   == dispatchEvent(pushed, "move", result)
      e1   == d1.engine
      last == Len(pushed.moveHistory)
      win  == checkWin(e1, result.row, result.column)
  IN
    IF boardFilled(e1)
    THEN LET final == [ result EXCEPT !.type = "draw" ]
             drawn == [ e1 EXCEPT !.gameOver = TRUE,
                                  !.isDrawn = TRUE,
                                  !.moveHistory[last] = final ]
             d2    == dispatchEvent(drawn, "draw", final)
         IN  [ engine |-> d2.engine, result |-> final, events |-> << d1.event, d2.event >> ]
    ELSE IF win.found
    THEN LET final == [ result EXCEPT !.type = "win",
                                      !.winningPositions = win.winningPositions ]
             won   == [ e1 EXCEPT !.winningPositions = win.winningPositions,
                                  !.gameOver = TRUE,
                                  !.winner = result.player,
                                  !.moveHistory[last] = final ]
             d2    == dispatchEvent(won, "win", final)
         IN  [ engine |-> d2.engine, result |-> final, events |-> << d1.event, d2.event >> ]
    ELSE [ engine |-> e1, result |-> result, events |-> << d1.event >> ]

\* the draw test made after a win as well
settle_noElse(pushed, result) ==
  LET d1   == dispatchEvent(pushed, "move", result)
      e1   == d1.engine
      last == Len(pushed.moveHistory)
      win  == checkWin(e1, result.row, result.column)
  IN
    IF win.found
    THEN LET final == [ result EXCEPT !.type = "win",
                                      !.winningPositions = win.winningPositions ]
             won   == [ e1 EXCEPT !.winningPositions = win.winningPositions,
                                  !.gameOver = TRUE,
                                  !.winner = result.player,
                                  !.moveHistory[last] = final ]
             d2    == dispatchEvent(won, "win", final)
         IN  IF boardFilled(d2.engine)
             THEN LET d3 == dispatchEvent([ d2.engine EXCEPT !.isDrawn = TRUE ], "draw", final)
                  IN  [ engine |-> d3.engine, result |-> final,
                        events |-> << d1.event, d2.event, d3.event >> ]
             ELSE [ engine |-> d2.engine, result |-> final,
                    events |-> << d1.event, d2.event >> ]
    ELSE IF boardFilled(e1)
    THEN LET final == [ result EXCEPT !.type = "draw" ]
             drawn == [ e1 EXCEPT !.gameOver = TRUE,
                                  !.isDrawn = TRUE,
                                  !.moveHistory[last] = final ]
             d2    == dispatchEvent(drawn, "draw", final)
         IN  [ engine |-> d2.engine, result |-> final, events |-> << d1.event, d2.event >> ]
    ELSE [ engine |-> e1, result |-> result, events |-> << d1.event >> ]

\* the log holding a copy of `result` made when it was pushed
settle_pushesCopy(pushed, result) ==
  LET d1   == dispatchEvent(pushed, "move", result)
      e1   == d1.engine
      last == Len(pushed.moveHistory)
      win  == checkWin(e1, result.row, result.column)
  IN
    IF win.found
    THEN LET final == [ result EXCEPT !.type = "win",
                                      !.winningPositions = win.winningPositions ]
             won   == [ e1 EXCEPT !.winningPositions = win.winningPositions,
                                  !.gameOver = TRUE,
                                  !.winner = result.player ]
             d2    == dispatchEvent(won, "win", final)
         IN  [ engine |-> d2.engine, result |-> final, events |-> << d1.event, d2.event >> ]
    ELSE IF boardFilled(e1)
    THEN LET final == [ result EXCEPT !.type = "draw" ]
             drawn == [ e1 EXCEPT !.gameOver = TRUE,
                                  !.isDrawn = TRUE,
                                  !.moveHistory[last] = final ]
             d2    == dispatchEvent(drawn, "draw", final)
         IN  [ engine |-> d2.engine, result |-> final, events |-> << d1.event, d2.event >> ]
    ELSE [ engine |-> e1, result |-> result, events |-> << d1.event >> ]

\* makeMove once the token is on the grid and `result` is the last entry of
\* the log: the move event, then the win test, else the draw test.  `result`
\* and the log entry are one object, so the entry changes with it.
settle(pushed, result) ==
  LET d1   == dispatchEvent(pushed, "move", result)
      e1   == d1.engine
      last == Len(pushed.moveHistory)
      win  == checkWin(e1, result.row, result.column)
  IN
    IF win.found
    THEN LET final == [ result EXCEPT !.type = "win",
                                      !.winningPositions = win.winningPositions ]
             won   == [ e1 EXCEPT !.winningPositions = win.winningPositions,
                                  !.gameOver = TRUE,
                                  !.winner = result.player,
                                  !.moveHistory[last] = final ]
             d2    == dispatchEvent(won, "win", final)
         IN  [ engine |-> d2.engine, result |-> final, events |-> << d1.event, d2.event >> ]
    ELSE IF boardFilled(e1)
    THEN LET final == [ result EXCEPT !.type = "draw" ]
             drawn == [ e1 EXCEPT !.gameOver = TRUE,
                                  !.isDrawn = TRUE,
                                  !.moveHistory[last] = final ]
             d2    == dispatchEvent(drawn, "draw", final)
         IN  [ engine |-> d2.engine, result |-> final, events |-> << d1.event, d2.event >> ]
    ELSE [ engine |-> e1, result |-> result, events |-> << d1.event >> ]

\* the column taken modulo the number of columns
makeMove_wrapsColumn(e, column) ==
  LET col == column % e.columns IN
  IF rejects(e, col)
  THEN [ engine |-> e, result |-> NullResult, events |-> << >> ]
  ELSE
    LET row == getLowestEmptyRow(e, col) IN
    IF row = -1
    THEN [ engine |-> e, result |-> NullResult, events |-> << >> ]
    ELSE
      LET player == getCurrentPlayer(e)
          result == [ row |-> row, column |-> col, player |-> player,
                      type |-> "move", winningPositions |-> << >> ]
          pushed == [ e EXCEPT !.board[row][col] = player,
                               !.moveHistory = Append(@, result) ]
      IN  settle(pushed, result)

makeMove(e, column) ==
  IF rejects(e, column)
  THEN [ engine |-> e, result |-> NullResult, events |-> << >> ]
  ELSE
    LET row == getLowestEmptyRow(e, column) IN
    IF row = -1
    THEN [ engine |-> e, result |-> NullResult, events |-> << >> ]
    ELSE
      LET player == getCurrentPlayer(e)
          result == [ row |-> row, column |-> column, player |-> player,
                      type |-> "move", winningPositions |-> << >> ]
          pushed == [ e EXCEPT !.board[row][column] = player,
                               !.moveHistory = Append(@, result) ]
      IN  settle(pushed, result)

\* undoMove without clearing the cell
undoMove_keepsCell(e) ==
  LET lastMove == getLastMove(e) IN
  IF lastMove = NullResult
  THEN [ engine |-> e, result |-> NullResult, events |-> << >> ]
  ELSE
    LET undoneMove == e.moveHistory[Len(e.moveHistory)]
        undone     == [ e EXCEPT !.moveHistory = SubSeq(@, 1, Len(@) - 1),
                                     !.gameOver = FALSE,
                                     !.isDrawn = FALSE,
                                     !.winningPositions = << >>,
                                     !.winner = NoWinner ]
        d          == dispatchEvent(undone, "undo", undoneMove)
    IN  [ engine |-> d.engine, result |-> undoneMove, events |-> << d.event >> ]

\* undoMove without clearing #winningPositions
undoMove_keepsWinningPositions(e) ==
  LET lastMove == getLastMove(e) IN
  IF lastMove = NullResult
  THEN [ engine |-> e, result |-> NullResult, events |-> << >> ]
  ELSE
    LET undoneMove == e.moveHistory[Len(e.moveHistory)]
        undone     == [ e EXCEPT !.board[lastMove.row][lastMove.column] = Empty,
                                     !.moveHistory = SubSeq(@, 1, Len(@) - 1),
                                     !.gameOver = FALSE,
                                     !.isDrawn = FALSE,
                                     !.winner = NoWinner ]
        d          == dispatchEvent(undone, "undo", undoneMove)
    IN  [ engine |-> d.engine, result |-> undoneMove, events |-> << d.event >> ]

\* undoMove without clearing #isDrawn
undoMove_keepsIsDrawn(e) ==
  LET lastMove == getLastMove(e) IN
  IF lastMove = NullResult
  THEN [ engine |-> e, result |-> NullResult, events |-> << >> ]
  ELSE
    LET undoneMove == e.moveHistory[Len(e.moveHistory)]
        undone     == [ e EXCEPT !.board[lastMove.row][lastMove.column] = Empty,
                                     !.moveHistory = SubSeq(@, 1, Len(@) - 1),
                                     !.gameOver = FALSE,
                                     !.winningPositions = << >>,
                                     !.winner = NoWinner ]
        d          == dispatchEvent(undone, "undo", undoneMove)
    IN  [ engine |-> d.engine, result |-> undoneMove, events |-> << d.event >> ]

\* undoMove dispatching the undo event on an empty log too
undoMove_dispatchesOnEmpty(e) ==
  LET lastMove == getLastMove(e) IN
  IF lastMove = NullResult
  THEN LET d == dispatchEvent(e, "undo", NullResult)
       IN  [ engine |-> d.engine, result |-> NullResult, events |-> << d.event >> ]
  ELSE
    LET undoneMove == e.moveHistory[Len(e.moveHistory)]
        undone     == [ e EXCEPT !.board[lastMove.row][lastMove.column] = Empty,
                                     !.moveHistory = SubSeq(@, 1, Len(@) - 1),
                                     !.gameOver = FALSE,
                                     !.isDrawn = FALSE,
                                     !.winningPositions = << >>,
                                     !.winner = NoWinner ]
        d          == dispatchEvent(undone, "undo", undoneMove)
    IN  [ engine |-> d.engine, result |-> undoneMove, events |-> << d.event >> ]

undoMove(e) ==
  LET lastMove == getLastMove(e) IN
  IF lastMove = NullResult
  THEN [ engine |-> e, result |-> NullResult, events |-> << >> ]
  ELSE
    LET undoneMove == e.moveHistory[Len(e.moveHistory)]
        undone     == [ e EXCEPT !.board[lastMove.row][lastMove.column] = Empty,
                                     !.moveHistory = SubSeq(@, 1, Len(@) - 1),
                                     !.gameOver = FALSE,
                                     !.isDrawn = FALSE,
                                     !.winningPositions = << >>,
                                     !.winner = NoWinner ]
        d          == dispatchEvent(undone, "undo", undoneMove)
    IN  [ engine |-> d.engine, result |-> undoneMove, events |-> << d.event >> ]

(***************************************************************************)
(* What a call hands to its caller                                         *)
(***************************************************************************)
\* nothing handed out: the call returned null or undefined
NoHandle ==
  [ kind |-> "none", record |-> NullResult, grid |-> << >>, value |-> 0,
    isEntry |-> FALSE, sharesLine |-> FALSE, sharedRows |-> {}, writes |-> 0 ]
\* (writes: the writes the caller has made so far to what it was handed)

\* the object returned by makeMove or undoMove. makeMove returns the object
\* it pushed on the log, whose winningPositions are the array of the
\* engine; undoMove returns the popped object after the engine replaced
\* its array by a new one
handedOut(out, call) ==
  IF out.result = NullResult THEN NoHandle
  ELSE IF call.op = "makeMove"
  THEN [ NoHandle EXCEPT !.kind = "record", !.record = out.result,
                         !.isEntry = TRUE,
                         !.sharesLine = (out.result.type = "win") ]
  ELSE [ NoHandle EXCEPT !.kind = "record", !.record = out.result ]

\* the default settings: no win and no draw counted
defaultSettings ==
  [ player1 |-> [ wins |-> 0 ], player2 |-> [ wins |-> 0 ], draws |-> 0 ]

\* the page before a board is created: no cell, no preview; `previews`
\* counts the previews shown so far
noView ==
  [ cells |-> << >>, savedBoardState |-> << >>, isPreviewMode |-> FALSE, previews |-> 0 ]

(***************************************************************************)
(* The state machine                                                       *)
(***************************************************************************)
\* the fields of the engine and the outcome of the call after a call that
\* returned `out`
InstallEngine(out, call) ==
  /\ rows' = out.engine.rows
  /\ columns' = out.engine.columns
  /\ board' = out.engine.board
  /\ moveHistory' = out.engine.moveHistory
  /\ winningPositions' = out.engine.winningPositions
  /\ gameOver' = out.engine.gameOver
  /\ isDrawn' = out.engine.isDrawn
  /\ winner' = out.engine.winner
  /\ eventListeners' = out.engine.eventListeners
  /\ called' = call
  /\ returned' = out.result
  /\ events' = out.events

\* the state variables after a call on the engine that returned `out`
Install(out, call) ==
  /\ InstallEngine(out, call)
  /\ held' = [ handedOut(out, call) EXCEPT !.writes = held.writes ]
  /\ settings' = settings
  /\ view' = view

\* the state after new Connect4(rows, columns) for one of the boards
Constructed(boards) ==
  \E d \in boards :
    LET out == constructor(d[1], d[2]) IN
      /\ rows = out.engine.rows
      /\ columns = out.engine.columns
      /\ board = out.engine.board
      /\ moveHistory = out.engine.moveHistory
      /\ winningPositions = out.engine.winningPositions
      /\ gameOver = out.engine.gameOver
      /\ isDrawn = out.engine.isDrawn
      /\ winner = out.engine.winner
      /\ eventListeners = out.engine.eventListeners
      /\ called = [ op |-> "constructor", column |-> -1 ]
      /\ returned = out.result
      /\ events = out.events
      /\ held = NoHandle
      /\ settings = defaultSettings
      /\ view = noView

Init == Constructed(Boards)

\* the columns played so far
played(e) == [ i \in 1..Len(e.moveHistory) |-> e.moveHistory[i].column ]

isPrefix(s, t) == Len(s) <= Len(t) /\ SubSeq(t, 1, Len(s)) = s

\* whether the exploration requests `column` in engine state e
Requested(e, column) ==
  /\ Len(e.moveHistory) < MaxMoves
  /\ \/ column < 0
     \/ column >= e.columns
     \/ LET next == Append(played(e), column)
        IN  \E o \in Openings(e.rows, e.columns) : isPrefix(next, o) \/ isPrefix(o, next)

MakeMove ==
  \E column \in -1..columns :
    /\ Requested(Engine, column)
    /\ Install(makeMove(Engine, column), [ op |-> "makeMove", column |-> column ])

UndoMove == Install(undoMove(Engine), [ op |-> "undoMove", column |-> -1 ])

Reset == Install(reset(Engine), [ op |-> "reset", column |-> -1 ])

Next == MakeMove \/ UndoMove \/ Reset

\* the engine alone: no callback is registered
Spec == Init /\ [][Next]_vars

\* the number of callbacks the engine holds
listenerCount(e) ==
  LET count[ks \in SUBSET Kinds] ==
        IF ks = {} THEN 0
        ELSE LET k == CHOOSE x \in ks : TRUE
             IN  Len(e.eventListeners[k]) + count[ks \ {k}]
  IN  count[Kinds]

AddEventListener ==
  \E event \in RequestedKinds, h \in Handlers :
    /\ listenerCount(Engine) < MaxListeners
    /\ Install([ engine |-> addEventListener(Engine, event, h),
                 result |-> NullResult, events |-> << >> ],
               [ op |-> "addEventListener", column |-> -1 ])

RemoveEventListener ==
  \E event \in RequestedKinds, h \in Handlers :
    Install([ engine |-> removeEventListener(Engine, event, h),
              result |-> NullResult, events |-> << >> ],
            [ op |-> "removeEventListener", column |-> -1 ])

InitEvents == Constructed(EventBoards)

NextEvents == Next \/ AddEventListener \/ RemoveEventListener

\* the engine with callbacks registered and removed between the calls
SpecEvents == InitEvents /\ [][NextEvents]_vars

(***************************************************************************)
(* Calls made from inside a callback                                       *)
(***************************************************************************)
\* the boards constructed where a callback makes moves
ReentrantBoards == { <<5, 2>> }

\* the callback "mover" as the move event invokes it: it answers the event
\* with a move in column 0, once, removing itself before it calls makeMove
mover(e) == makeMove(removeEventListener(e, "move", "mover"), 0).engine

\* makeMove while "mover" is the callback subscribed to the move event: the
\* guard and the push, the dispatch of the move event, which runs the
\* callback and with it the nested call, and then the win and draw tests of
\* the outer call on the engine the callback left
makeMoveWithMover(e, column) ==
  IF ~isMember(e.eventListeners["move"], "mover")
  THEN makeMove(e, column)
  ELSE IF rejects(e, column)
  THEN [ engine |-> e, result |-> NullResult, events |-> << >> ]
  ELSE
    LET row == getLowestEmptyRow(e, column) IN
    IF row = -1
    THEN [ engine |-> e, result |-> NullResult, events |-> << >> ]
    ELSE
      LET player == getCurrentPlayer(e)
          result == [ row |-> row, column |-> column, player |-> player,
                      type |-> "move", winningPositions |-> << >> ]
          pushed == [ e EXCEPT !.board[row][column] = player,
                               !.moveHistory = Append(@, result) ]
          last   == Len(pushed.moveHistory)
          moved  == [ kind |-> "move", data |-> result, seen |-> status(pushed),
                      subscribed |-> pushed.eventListeners["move"],
                      invoked |-> << "mover" >> ]
          e1     == mover(pushed)
          win    == checkWin(e1, row, column)
      IN
        IF win.found
        THEN LET final == [ result EXCEPT !.type = "win",
                                          !.winningPositions = win.winningPositions ]
                 won   == [ e1 EXCEPT !.winningPositions = win.winningPositions,
                                      !.gameOver = TRUE,
                                      !.winner = player,
                                      !.moveHistory[last] = final ]
                 d2    == dispatchEvent(won, "win", final)
             IN  [ engine |-> d2.engine, result |-> final, events |-> << moved, d2.event >> ]
        ELSE IF boardFilled(e1)
        THEN LET final == [ result EXCEPT !.type = "draw" ]
                 drawn == [ e1 EXCEPT !.gameOver = TRUE,
                                      !.isDrawn = TRUE,
                                      !.moveHistory[last] = final ]
                 d2    == dispatchEvent(drawn, "draw", final)
             IN  [ engine |-> d2.engine, result |-> final, events |-> << moved, d2.event >> ]
        ELSE [ engine |-> e1, result |-> result, events |-> << moved >> ]

\* the callback that answers the next move event with makeMove is registered;
\* it is the only callback of this engine
AddMover ==
  Install([ engine |-> addEventListener(Engine, "move", "mover"),
            result |-> NullResult, events |-> << >> ],
          [ op |-> "addEventListener", column |-> -1 ])

MakeMoveWithMover ==
  \E column \in -1..columns :
    /\ Requested(Engine, column)
    /\ Install(makeMoveWithMover(Engine, column), [ op |-> "makeMove", column |-> column ])

InitReentrant == Constructed(ReentrantBoards)

NextReentrant == MakeMoveWithMover \/ UndoMove \/ Reset \/ AddMover

\* the engine with a callback that makes a move while a move is dispatched
SpecReentrant == InitReentrant /\ [][NextReentrant]_vars

(***************************************************************************)
(* The queries, as calls                                                   *)
(***************************************************************************)
QueryBoards == { <<4, 2>> }

Queries ==
  { "getBoard", "getCurrentPlayer", "getLastMove", "isValidMove",
    "isColumnFull", "getLowestEmptyRow", "isGameOver", "isDraw", "winner",
    "winningPositions" }

\* the queries that take a column
ColumnQueries == { "isValidMove", "isColumnFull", "getLowestEmptyRow" }

\* a copy of the outer array only: its rows are the rows of the engine
getBoard_shallow(e) ==
  [ NoHandle EXCEPT !.kind = "grid", !.grid = e.board,
                    !.sharedRows = 0..(e.rows - 1) ]

\* #board.map(row => [...row]): a new outer array of new rows
getBoard(e) ==
  [ NoHandle EXCEPT
      !.kind = "grid",
      !.grid = [ r \in 0..(e.rows - 1) |-> [ c \in 0..(e.columns - 1) |-> e.board[r][c] ] ] ]

\* the test made on the bottom row instead of the top row
isColumnFull_bottomRow(e, column) ==
  IF column \in 0..(e.columns - 1) THEN e.board[e.rows - 1][column] # Empty ELSE TRUE

\* `this.#board[0][column] !== 0`: for a column outside the row the cell
\* read is undefined, which is not 0
isColumnFull(e, column) ==
  IF column \in 0..(e.columns - 1) THEN e.board[0][column] # Empty ELSE TRUE

\* the object getLastMove returns: a new object with the properties of the
\* last entry, so its winningPositions are the array of the entry, which is
\* the array of the engine after a win
lastMoveCopy(e) ==
  IF getLastMove(e) = NullResult THEN NoHandle
  ELSE [ NoHandle EXCEPT !.kind = "record", !.record = getLastMove(e),
                         !.sharesLine = (e.winner # NoWinner) ]

value(v) == [ NoHandle EXCEPT !.kind = "value", !.value = v ]

\* getLastMove taking the entry off the log
query_popsLast(e, q, column) ==
  [ engine |-> IF q = "getLastMove" /\ e.moveHistory # << >>
               THEN [ e EXCEPT !.moveHistory = SubSeq(@, 1, Len(@) - 1) ]
               ELSE e,
    result |-> NullResult,
    events |-> << >>,
    handle |-> IF q = "getLastMove" THEN lastMoveCopy(e) ELSE NoHandle ]

\* query q called with `column`: no query assigns a field or dispatches
query(e, q, column) ==
  [ engine |-> e,
    result |-> NullResult,
    events |-> << >>,
    handle |->
      CASE q = "getBoard"          -> getBoard(e)
        [] q = "getCurrentPlayer"  -> value(getCurrentPlayer(e))
        [] q = "getLastMove"       -> lastMoveCopy(e)
        [] q = "isValidMove"       -> value(isValidMove(e, column))
        [] q = "isColumnFull"      -> value(isColumnFull(e, column))
        [] q = "getLowestEmptyRow" -> value(getLowestEmptyRow(e, column))
        [] q = "isGameOver"        -> value(e.gameOver)
        [] q = "isDraw"            -> value(e.isDrawn)
        [] q = "winner"            -> value(e.winner)
        [] q = "winningPositions"  -> value(e.winningPositions) ]

\* the state variables after a call that returned `out` with a handle
InstallHandle(out, call) ==
  /\ InstallEngine(out, call)
  /\ held' = [ out.handle EXCEPT !.writes = held.writes + out.handle.writes ]
  /\ settings' = settings
  /\ view' = view

Query ==
  \E q \in Queries, column \in -1..columns :
    /\ q \notin ColumnQueries => column = -1
    /\ InstallHandle(query(Engine, q, column), [ op |-> q, column |-> column ])

(***************************************************************************)
(* History navigation                                                      *)
(***************************************************************************)
\* the grid rebuilt from scratch from the first n entries of the log
RECURSIVE replayMoves(_, _)
replayMoves(e, n) ==
  IF n = 0 THEN emptyBoard(e.rows, e.columns)
  ELSE LET m == e.moveHistory[n]
       IN  [ replayMoves(e, n - 1) EXCEPT ![m.row][m.column] = m.player ]

\* the status fields taken from the stored type of entry `at`
restored(e, at) ==
  [ e EXCEPT !.gameOver = (at.type \in { "win", "draw" }),
             !.isDrawn = (at.type = "draw"),
             !.winner = IF at.type = "win" THEN at.player ELSE NoWinner,
             !.winningPositions = IF at.type = "win" THEN at.winningPositions ELSE << >> ]

\* the rejection extended to every index below the length of the log but
\* the last one excluded
resetToMove_acceptsLast(e, index) ==
  IF index < 0 \/ index >= Len(e.moveHistory)
  THEN [ engine |-> e, result |-> NullResult, events |-> << >>, handle |-> NoHandle ]
  ELSE
    LET cut == [ e EXCEPT !.board = replayMoves(e, index + 1),
                          !.moveHistory = SubSeq(@, 1, index + 1) ]
        now == restored(cut, e.moveHistory[index + 1])
    IN  [ engine |-> now, result |-> NullResult, events |-> << >>,
          handle |-> getBoard(now) ]

\* resetToMove(index): the log cut to entries 0..index, the grid replayed
\* from them, the status taken from entry `index`
resetToMove(e, index) ==
  IF index < 0 \/ index >= Len(e.moveHistory) \/ index = Len(e.moveHistory) - 1
  THEN [ engine |-> e, result |-> NullResult, events |-> << >>, handle |-> NoHandle ]
  ELSE
    LET cut == [ e EXCEPT !.board = replayMoves(e, index + 1),
                          !.moveHistory = SubSeq(@, 1, index + 1) ]
        now == restored(cut, e.moveHistory[index + 1])
    IN  [ engine |-> now, result |-> NullResult, events |-> << >>,
          handle |-> getBoard(now) ]

\* getBoardAtMove(index): the replayed grid alone
getBoardAtMove(e, index) ==
  IF index < 0 \/ index >= Len(e.moveHistory)
  THEN [ engine |-> e, result |-> NullResult, events |-> << >>, handle |-> NoHandle ]
  ELSE [ engine |-> e, result |-> NullResult, events |-> << >>,
         handle |-> [ NoHandle EXCEPT !.kind = "grid", !.grid = replayMoves(e, index + 1) ] ]

\* the argument of a call on the history is kept in the column of `called`
ResetToMove ==
  \E index \in -1..Len(moveHistory) :
    InstallHandle(resetToMove(Engine, index), [ op |-> "resetToMove", column |-> index ])

GetBoardAtMove ==
  \E index \in -1..Len(moveHistory) :
    InstallHandle(getBoardAtMove(Engine, index), [ op |-> "getBoardAtMove", column |-> index ])

InitQueries == Constructed(QueryBoards)

NextQueries == Next \/ Query \/ ResetToMove \/ GetBoardAtMove

\* the engine with its queries and its history navigation called between
\* the moves
SpecQueries == InitQueries /\ [][NextQueries]_vars

(***************************************************************************)
(* A caller writing to what it was handed                                  *)
(***************************************************************************)
MaxWrites == 1

\* grid[row][col] = v on a grid handed out
writeCell(e, h, row, col, v) ==
  [ engine |-> IF row \in h.sharedRows THEN [ e EXCEPT !.board[row][col] = v ] ELSE e,
    result |-> NullResult,
    events |-> << >>,
    handle |-> [ h EXCEPT !.grid[row][col] = v, !.writes = 1 ] ]

\* record.type = t on a record handed out
writeType(e, h, t) ==
  [ engine |-> IF h.isEntry
               THEN [ e EXCEPT !.moveHistory[Len(e.moveHistory)].type = t ]
               ELSE e,
    result |-> NullResult,
    events |-> << >>,
    handle |-> [ h EXCEPT !.record.type = t, !.writes = 1 ] ]

\* record.winningPositions.push(position) on a record handed out
pushPosition(e, h, position) ==
  LET grown == Append(h.record.winningPositions, position) IN
  [ engine |-> IF h.sharesLine
               THEN [ e EXCEPT !.winningPositions = grown,
                               !.moveHistory[Len(e.moveHistory)].winningPositions = grown ]
               ELSE e,
    result |-> NullResult,
    events |-> << >>,
    handle |-> [ h EXCEPT !.record.winningPositions = grown, !.writes = 1 ] ]

GetBoard ==
  InstallHandle(query(Engine, "getBoard", -1), [ op |-> "getBoard", column |-> -1 ])

GetLastMove ==
  InstallHandle(query(Engine, "getLastMove", -1), [ op |-> "getLastMove", column |-> -1 ])

WriteCell ==
  \E row \in 0..(rows - 1), col \in 0..(columns - 1), v \in { 0, 1, 2 } :
    /\ held.kind = "grid"
    /\ held.writes < MaxWrites
    /\ held.grid[row][col] # v
    /\ InstallHandle(writeCell(Engine, held, row, col, v), [ op |-> "writeCell", column |-> col ])

WriteType ==
  \E t \in { "move", "win", "draw" } :
    /\ held.kind = "record"
    /\ held.writes < MaxWrites
    /\ held.record.type # t
    /\ InstallHandle(writeType(Engine, held, t), [ op |-> "writeType", column |-> -1 ])

PushPosition ==
  /\ held.kind = "record"
  /\ held.writes < MaxWrites
  /\ held.record.winningPositions # << >>
  /\ InstallHandle(pushPosition(Engine, held, [ row |-> 0, col |-> 0 ]),
                   [ op |-> "pushPosition", column |-> -1 ])

NextAlias == Next \/ GetBoard \/ GetLastMove \/ WriteCell \/ WriteType \/ PushPosition

\* the engine with a caller that writes to the objects it was handed
SpecAlias == InitQueries /\ [][NextAlias]_vars

(***************************************************************************)
(* The controller and the statistics                                       *)
(***************************************************************************)
\* the board settings a game is started with
ControllerBoards == { <<5, 2>> }

\* the statistics explored: no counter above MaxStat
MaxStat == 1

DefaultRows == 6

DefaultColumns == 7

\* `player${n}`
playerKey(n) == IF n = 1 THEN "player1" ELSE "player2"

\* a win counted as a draw as well
updateStats_noElse(s, result) ==
  LET won == IF result.type = "win"
             THEN [ s EXCEPT ![playerKey(result.player)].wins = @ + 1 ]
             ELSE s
  IN  IF result.type \in { "win", "draw" } THEN [ won EXCEPT !.draws = @ + 1 ] ELSE won

updateStats(s, result) ==
  IF result.type = "win"
  THEN [ s EXCEPT ![playerKey(result.player)].wins = @ + 1 ]
  ELSE IF result.type = "draw"
  THEN [ s EXCEPT !.draws = @ + 1 ]
  ELSE s

\* the counters lowered without the tests `> 0`
decrementStats_unguarded(s, result) ==
  IF result.type = "win"
  THEN [ s EXCEPT ![playerKey(result.player)].wins = @ - 1 ]
  ELSE IF result.type = "draw"
  THEN [ s EXCEPT !.draws = @ - 1 ]
  ELSE s

\* the draws left as they are
decrementStats_winsOnly(s, result) ==
  IF result.type = "win" /\ s[playerKey(result.player)].wins > 0
  THEN [ s EXCEPT ![playerKey(result.player)].wins = @ - 1 ]
  ELSE s

decrementStats(s, result) ==
  IF result.type = "win"
  THEN IF s[playerKey(result.player)].wins > 0
       THEN [ s EXCEPT ![playerKey(result.player)].wins = @ - 1 ]
       ELSE s
  ELSE IF result.type = "draw"
  THEN IF s.draws > 0 THEN [ s EXCEPT !.draws = @ - 1 ] ELSE s
  ELSE s

resetStats(s) == [ s EXCEPT !.player1.wins = 0, !.player2.wins = 0, !.draws = 0 ]

\* the four handlers the controller registers on an engine
listening(e) ==
  addEventListener(
    addEventListener(
      addEventListener(
        addEventListener(e, "move", "handleGameMove"),
        "win", "handleGameWin"),
      "draw", "handleGameDraw"),
    "reset", "handleGameReset")

\* the settings after handler h has run with `data`
handled(s, h, data) ==
  IF h = "handleGameWin" THEN updateStats(s, [ type |-> "win", player |-> data.player ])
  ELSE IF h = "handleGameDraw" THEN updateStats(s, [ type |-> "draw", player |-> 0 ])
  ELSE s

\* the settings after the handlers invoked for one event, from the i-th on
RECURSIVE invokedFrom(_, _, _)
invokedFrom(s, event, i) ==
  IF i > Len(event.invoked) THEN s
  ELSE invokedFrom(handled(s, event.invoked[i], event.data), event, i + 1)

\* the settings after the handlers invoked for the events, in order
RECURSIVE dispatched(_, _)
dispatched(s, evs) ==
  IF evs = << >> THEN s
  ELSE dispatched(invokedFrom(s, Head(evs), 1), Tail(evs))

\* new GameController(settingsManager, uiManager)
GameController(s) ==
  [ engine |-> listening(constructor(DefaultRows, DefaultColumns).engine),
    result |-> NullResult, events |-> << >>, settings |-> s ]

resetGame(e, s) ==
  LET out == reset(e)
  IN  [ engine |-> out.engine, result |-> NullResult, events |-> out.events,
        settings |-> dispatched(s, out.events) ]

startNewGame(e, s, r, c) == resetGame(listening(constructor(r, c).engine), s)

handleMove(e, s, column) ==
  IF e.gameOver
  THEN [ engine |-> e, result |-> NullResult, events |-> << >>, settings |-> s ]
  ELSE LET out == makeMove(e, column)
       IN  [ engine |-> out.engine, result |-> out.result, events |-> out.events,
             settings |-> dispatched(s, out.events) ]

\* GameController.undoMove
controllerUndoMove(e, s) ==
  LET lastMove == getLastMove(e) IN
  IF lastMove = NullResult
  THEN [ engine |-> e, result |-> NullResult, events |-> << >>, settings |-> s ]
  ELSE LET reverted == IF lastMove.type \in { "win", "draw" }
                       THEN decrementStats(s, lastMove)
                       ELSE s
           out      == undoMove(e)
       IN  [ engine |-> out.engine, result |-> out.result, events |-> out.events,
             settings |-> dispatched(reverted, out.events) ]

RECURSIVE decrementedFrom_stopsEarly(_, _, _, _)
\* the loop leaving out the entry right after moveIndex
decrementedFrom_stopsEarly(s, currentHistory, i, moveIndex) ==
  IF i <= moveIndex + 1 THEN s
  ELSE decrementedFrom_stopsEarly(
         IF currentHistory[i + 1].type \in { "win", "draw" }
         THEN decrementStats(s, currentHistory[i + 1])
         ELSE s,
         currentHistory, i - 1, moveIndex)

\* the loop of #handleHistoryItemClick over the entries after moveIndex
RECURSIVE decrementedFrom(_, _, _, _)
decrementedFrom(s, currentHistory, i, moveIndex) ==
  IF i <= moveIndex THEN s
  ELSE decrementedFrom(
         IF currentHistory[i + 1].type \in { "win", "draw" }
         THEN decrementStats(s, currentHistory[i + 1])
         ELSE s,
         currentHistory, i - 1, moveIndex)

handleHistoryItemClick(e, s, moveIndex) ==
  LET currentHistory == e.moveHistory
      currentLength  == Len(currentHistory)
  IN  IF moveIndex = currentLength - 1
      THEN [ engine |-> e, result |-> NullResult, events |-> << >>, settings |-> s ]
      ELSE LET out == resetToMove(e, moveIndex)
           IN  [ engine |-> out.engine, result |-> NullResult, events |-> out.events,
                 settings |-> decrementedFrom(s, currentHistory, currentLength - 1, moveIndex) ]

(***************************************************************************)
(* The board on the page.  cells[row][col] is the set of players whose     *)
(* token class (player1, player2) the cell carries; the hover and          *)
(* highlight classes are left out.  << >> stands for null.                 *)
(***************************************************************************)
createBoard(r, c) == [ row \in 0..(r - 1) |-> [ col \in 0..(c - 1) |-> {} ] ]

resetBoard(cells) == [ row \in DOMAIN cells |-> [ col \in DOMAIN cells[row] |-> {} ] ]

\* document.querySelector finds the cell
hasCell(cells, row, col) == row \in DOMAIN cells /\ col \in DOMAIN cells[row]

updateCell(cells, row, col, player) ==
  IF hasCell(cells, row, col)
  THEN [ cells EXCEPT ![row][col] = @ \cup { player } ]
  ELSE cells

clearCell(cells, row, col) ==
  IF hasCell(cells, row, col) THEN [ cells EXCEPT ![row][col] = {} ] ELSE cells

\* a copy of the class list of every cell
saveBoardState(cells) == cells

restoreBoardState(cells, cellStates) ==
  [ row \in DOMAIN cells |->
      [ col \in DOMAIN cells[row] |->
          IF hasCell(cellStates, row, col) THEN cellStates[row][col] ELSE cells[row][col] ] ]

showBoardPreview(cells, boardState) ==
  [ row \in DOMAIN cells |->
      [ col \in DOMAIN cells[row] |->
          IF hasCell(boardState, row, col) /\ boardState[row][col] # Empty
          THEN { boardState[row][col] }
          ELSE {} ] ]

\* #updateBoardFromState
updateBoardFromState(cells, grid) ==
  [ row \in DOMAIN cells |->
      [ col \in DOMAIN cells[row] |->
          IF hasCell(grid, row, col) /\ grid[row][col] # Empty
          THEN cells[row][col] \cup { grid[row][col] }
          ELSE cells[row][col] ] ]

\* the page after handler h has run with `data`
shownBy(v, h, data) ==
  IF h = "handleGameMove"
  THEN [ v EXCEPT !.cells = updateCell(@, data.row, data.column, data.player) ]
  ELSE IF h = "handleGameReset"
  THEN [ v EXCEPT !.cells = resetBoard(@) ]
  ELSE v

\* the page after the handlers invoked for one event, from the i-th on
RECURSIVE shownFrom(_, _, _)
shownFrom(v, event, i) ==
  IF i > Len(event.invoked) THEN v
  ELSE shownFrom(shownBy(v, event.invoked[i], event.data), event, i + 1)

\* the page after the handlers invoked for the events, in order
RECURSIVE shown(_, _)
shown(v, evs) ==
  IF evs = << >> THEN v
  ELSE shown(shownFrom(v, Head(evs), 1), Tail(evs))

\* the page after startNewGame: a board of new cells, then the reset
shownAfterStart(v, r, c, evs) == shown([ v EXCEPT !.cells = createBoard(r, c) ], evs)

\* the page after GameController.undoMove returned `out`
shownAfterUndo(v, out) ==
  IF out.result = NullResult THEN v
  ELSE [ shown(v, out.events) EXCEPT
           !.cells = clearCell(@, out.result.row, out.result.column) ]

handleHistoryItemLeave(v) ==
  IF ~v.isPreviewMode THEN v
  ELSE [ v EXCEPT !.cells = IF v.savedBoardState # << >>
                            THEN restoreBoardState(@, v.savedBoardState)
                            ELSE @,
                  !.savedBoardState = << >>,
                  !.isPreviewMode = FALSE ]

handleHistoryItemHover(e, v, moveIndex) ==
  LET left       == IF v.isPreviewMode THEN handleHistoryItemLeave(v) ELSE v
      boardState == getBoardAtMove(e, moveIndex).handle
  IN  IF boardState.kind = "grid"
      THEN [ left EXCEPT !.cells = showBoardPreview(@, boardState.grid),
                         !.savedBoardState = saveBoardState(left.cells),
                         !.isPreviewMode = TRUE,
                         !.previews = @ + 1 ]
      ELSE left

\* the page after #handleHistoryItemClick on the engine e
shownAfterClick(e, v, moveIndex) ==
  LET left   == IF v.isPreviewMode THEN handleHistoryItemLeave(v) ELSE v
      result == resetToMove(e, moveIndex)
  IN  IF moveIndex = Len(e.moveHistory) - 1 \/ result.handle.kind = "none"
      THEN left
      ELSE [ left EXCEPT
               !.cells = updateBoardFromState(resetBoard(@), result.engine.board) ]

\* the state variables after a call on the controller that returned `out`
InstallController(out, call) ==
  /\ InstallEngine(out, call)
  /\ held' = NoHandle
  /\ settings' = out.settings

\* keypresses, clicks and touches reach the controller only on the game
\* screen, shown by the first startNewGame
onGameScreen == called.op # "GameController"

Capped(s) == s.player1.wins <= MaxStat /\ s.player2.wins <= MaxStat /\ s.draws <= MaxStat

\* startNewGame with the board settings being one of `boards`
StartNewGameOn(boards) ==
  \E d \in boards :
    LET out == startNewGame(Engine, settings, d[1], d[2]) IN
      /\ InstallController(out, [ op |-> "startNewGame", column |-> -1 ])
      /\ view' = shownAfterStart(view, d[1], d[2], out.events)

StartNewGame == StartNewGameOn(ControllerBoards)

HandleMove ==
  \E column \in -1..columns :
    LET out == handleMove(Engine, settings, column) IN
      /\ onGameScreen
      /\ Requested(Engine, column)
      /\ Capped(out.settings)
      /\ InstallController(out, [ op |-> "handleMove", column |-> column ])
      /\ view' = shown(view, out.events)

ControllerUndoMove ==
  LET out == controllerUndoMove(Engine, settings) IN
    /\ onGameScreen
    /\ InstallController(out, [ op |-> "GameController.undoMove", column |-> -1 ])
    /\ view' = shownAfterUndo(view, out)

ResetGame ==
  LET out == resetGame(Engine, settings) IN
    /\ onGameScreen
    /\ InstallController(out, [ op |-> "resetGame", column |-> -1 ])
    /\ view' = shown(view, out.events)

HandleResetStats ==
  /\ onGameScreen
  /\ InstallController([ engine |-> Engine, result |-> NullResult, events |-> << >>,
                         settings |-> resetStats(settings) ],
                       [ op |-> "handleResetStats", column |-> -1 ])
  /\ view' = view

HandleHistoryItemClick ==
  \E moveIndex \in 0..(Len(moveHistory) - 1) :
    /\ onGameScreen
    /\ InstallController(handleHistoryItemClick(Engine, settings, moveIndex),
                         [ op |-> "handleHistoryItemClick", column |-> moveIndex ])
    /\ view' = shownAfterClick(Engine, view, moveIndex)

InitController ==
  LET out == GameController(defaultSettings) IN
    /\ rows = out.engine.rows
    /\ columns = out.engine.columns
    /\ board = out.engine.board
    /\ moveHistory = out.engine.moveHistory
    /\ winningPositions = out.engine.winningPositions
    /\ gameOver = out.engine.gameOver
    /\ isDrawn = out.engine.isDrawn
    /\ winner = out.engine.winner
    /\ eventListeners = out.engine.eventListeners
    /\ called = [ op |-> "GameController", column |-> -1 ]
    /\ returned = out.result
    /\ events = out.events
    /\ held = NoHandle
    /\ settings = out.settings
    /\ view = noView

NextController ==
  \/ StartNewGame
  \/ HandleMove
  \/ ControllerUndoMove
  \/ ResetGame
  \/ HandleResetStats
  \/ HandleHistoryItemClick

\* the controller driving the engines it creates and counting the results
SpecController == InitController /\ [][NextController]_vars

(***************************************************************************)
(* The preview of the history panel                                        *)
(***************************************************************************)
\* the previews started in one behaviour
MaxPreviews == 1

\* the board settings of the games played with previews
DisplayBoards == { <<2, 2>> }

\* the pointer enters an item of the history panel
HandleHistoryItemHover ==
  \E moveIndex \in 0..(Len(moveHistory) - 1) :
    /\ onGameScreen
    /\ view.previews < MaxPreviews
    /\ InstallController([ engine |-> Engine, result |-> NullResult, events |-> << >>,
                           settings |-> settings ],
                         [ op |-> "handleHistoryItemHover", column |-> moveIndex ])
    /\ view' = handleHistoryItemHover(Engine, view, moveIndex)

\* the pointer leaves the item
HandleHistoryItemLeave ==
  /\ onGameScreen
  /\ view.isPreviewMode
  /\ InstallController([ engine |-> Engine, result |-> NullResult, events |-> << >>,
                         settings |-> settings ],
                       [ op |-> "handleHistoryItemLeave", column |-> -1 ])
  /\ view' = handleHistoryItemLeave(view)

StartNewGameSmall == StartNewGameOn(DisplayBoards)

NextDisplay ==
  \/ StartNewGameSmall
  \/ HandleMove
  \/ ControllerUndoMove
  \/ ResetGame
  \/ HandleResetStats
  \/ HandleHistoryItemClick
  \/ HandleHistoryItemHover
  \/ HandleHistoryItemLeave

\* the controller with the previews of earlier boards
SpecDisplay == InitController /\ [][NextDisplay]_vars

(***************************************************************************)
(* The settings form                                                       *)
(***************************************************************************)
\* #DEFAULT_SETTINGS
DEFAULT_SETTINGS ==
  [ player1 |-> [ name |-> "Player 1", color |-> "#fb4934", wins |-> 0 ],
    player2 |-> [ name |-> "Player 2", color |-> "#fabd2f", wins |-> 0 ],
    board   |-> [ rows |-> 6, columns |-> 7, color |-> "#83a598" ],
    draws   |-> 0 ]

\* the names typed in the form
Names == { "Ann", "Bob" }

\* the board sizes typed in the form
FormBoards == { <<4, 2>> }

\* a value of `updates` for which typeof value === 'object' holds, and one
\* for which it does not
object(fields) == [ object |-> TRUE, value |-> fields ]

scalar(v) == [ object |-> FALSE, value |-> v ]

\* { ...old, ...given }
spread(old, given) ==
  [ f \in DOMAIN old \cup DOMAIN given |-> IF f \in DOMAIN given THEN given[f] ELSE old[f] ]

\* every key of the updates assigned as it is: an object replaces the old one
updateSettings_replaces(s, updates) ==
  [ key \in DOMAIN s \cup DOMAIN updates |->
      IF key \in DOMAIN updates THEN updates[key].value ELSE s[key] ]

updateSettings(s, updates) ==
  [ key \in DOMAIN s \cup DOMAIN updates |->
      IF key \in DOMAIN updates
      THEN IF updates[key].object
           THEN spread(s[key], updates[key].value)
           ELSE updates[key].value
      ELSE s[key] ]

\* the updates of the two save buttons and of #startGame
nameUpdate(n, name) == playerKey(n) :> object([ name |-> name ])

startGameUpdate(name1, name2, r, c) ==
  [ player1 |-> object([ name |-> name1, color |-> DEFAULT_SETTINGS.player1.color ]),
    player2 |-> object([ name |-> name2, color |-> DEFAULT_SETTINGS.player2.color ]),
    board   |-> object([ rows |-> r, columns |-> c, color |-> DEFAULT_SETTINGS.board.color ]) ]

\* GameApp.#startGame: the form saved, then a game on the board it asks for
startGame(e, s, name1, name2, r, c) ==
  LET saved == updateSettings(s, startGameUpdate(name1, name2, r, c))
  IN  startNewGame(e, saved, saved.board.rows, saved.board.columns)

StartGame ==
  \E name1 \in Names, name2 \in Names, d \in FormBoards :
    LET out == startGame(Engine, settings, name1, name2, d[1], d[2]) IN
      /\ InstallController(out, [ op |-> "startGame", column |-> -1 ])
      /\ view' = shownAfterStart(view, out.settings.board.rows,
                                 out.settings.board.columns, out.events)

\* a save button next to a name; the settings screen is opened from the game
\* screen and left again
SaveName ==
  \E n \in 1..2, name \in Names :
    /\ onGameScreen
    /\ InstallController([ engine |-> Engine, result |-> NullResult, events |-> << >>,
                           settings |-> updateSettings(settings, nameUpdate(n, name)) ],
                         [ op |-> "saveName", column |-> n ])
    /\ view' = view

InitSettings ==
  LET out == GameController(DEFAULT_SETTINGS) IN
    /\ rows = out.engine.rows
    /\ columns = out.engine.columns
    /\ board = out.engine.board
    /\ moveHistory = out.engine.moveHistory
    /\ winningPositions = out.engine.winningPositions
    /\ gameOver = out.engine.gameOver
    /\ isDrawn = out.engine.isDrawn
    /\ winner = out.engine.winner
    /\ eventListeners = out.engine.eventListeners
    /\ called = [ op |-> "GameController", column |-> -1 ]
    /\ returned = out.result
    /\ events = out.events
    /\ held = NoHandle
    /\ settings = out.settings
    /\ view = noView

NextSettings ==
  \/ StartGame
  \/ SaveName
  \/ HandleMove

\* the settings form and the games started from it
SpecSettings == InitSettings /\ [][NextSettings]_vars

(***************************************************************************)
(* The number keys                                                         *)
(***************************************************************************)
\* the number keys pressed: on the board of ten columns they fill columns
\* 9, 0, 1 and 8
Keys == { 0, 1, 2, 9 }

\* the board settings of the games played with the keys: one with a column
\* for every key, one without a column for most of them
KeyBoards == { <<1, 10>>, <<2, 2>> }

\* the column of key 0
LastKeyColumn == 9

\* key 0 taken as the key before key 1
handleKeyPress_zeroBelowOne(e, s, key) == handleMove(e, s, key - 1)

handleKeyPress(e, s, key) == handleMove(e, s, IF key = 0 THEN LastKeyColumn ELSE key - 1)

HandleKeyPress ==
  \E key \in Keys :
    LET out == handleKeyPress(Engine, settings, key) IN
      /\ onGameScreen
      /\ Capped(out.settings)
      /\ InstallController(out, [ op |-> "handleKeyPress", column |-> key ])
      /\ view' = shown(view, out.events)

StartNewGameKeys == StartNewGameOn(KeyBoards)

NextKeys ==
  \/ StartNewGameKeys
  \/ HandleKeyPress

\* the controller driven from the keyboard
SpecKeys == InitController /\ [][NextKeys]_vars

(***************************************************************************)
(* Vocabulary of the properties                                            *)
(***************************************************************************)
Columns == 0..(columns - 1)

Rows == 0..(rows - 1)

\* the call makeMove(column) is accepted in the current state
Accepts(column) == makeMove(Engine, column).result # NullResult

\* the grid obtained from an all-empty r x c grid by writing the first n
\* entries of the log in order
RECURSIVE replay(_, _, _, _)
replay(r, c, log, n) ==
  IF n = 0 THEN emptyBoard(r, c)
  ELSE [ replay(r, c, log, n - 1) EXCEPT ![log[n].row][log[n].column] = log[n].player ]

occupied(b) == { p \in Rows \X Columns : b[p[1]][p[2]] # Empty }

\* the greatest row index whose cell of the column is empty
lowestEmpty(b, column) ==
  CHOOSE r \in Rows : b[r][column] = Empty /\ \A q \in Rows : b[q][column] = Empty => q <= r

axes == { <<0, 1>>, <<1, 0>>, <<1, 1>>, <<1, -1>> }

\* cell (row, col) lies on `len` contiguous cells of player p along axis d,
\* as the k-th of them
onRunAt(b, row, col, p, d, k, len) ==
  \A j \in 0..(len - 1) :
    LET r == row + (j - k) * d[1]
        c == col + (j - k) * d[2]
    IN  r \in Rows /\ c \in Columns /\ b[r][c] = p

\* cell (row, col) lies on at least 4 contiguous cells of player p
onRun(b, row, col, p) ==
  \E d \in axes, k \in 0..3 : onRunAt(b, row, col, p, d, k, 4)

kinds(evs) == [ i \in 1..Len(evs) |-> evs[i].kind ]

(***************************************************************************)
(* C1  Log/grid consistency: the grid equals the replay of the move log    *)
(* from the empty grid, and the number of occupied cells is the length of  *)
(* the log.                                                                *)
(***************************************************************************)
C1_LogGridConsistency ==
  /\ board = replay(rows, columns, moveHistory, Len(moveHistory))
  /\ Cardinality(occupied(board)) = Len(moveHistory)

\* an undo has just removed a move from a log that still holds moves
C1_Witness ==
  /\ called.op = "undoMove"
  /\ returned # NullResult
  /\ Len(moveHistory) >= 3

(***************************************************************************)
(* C2  Gravity: an accepted makeMove(c) places the token in the greatest   *)
(* empty row of column c, getLowestEmptyRow(c) afterwards is its value     *)
(* before minus one, and no occupied cell has an empty cell below it.      *)
(***************************************************************************)
C2_Gravity ==
  /\ \A c \in Columns :
       LET out == makeMove(Engine, c) IN
         Accepts(c) =>
           /\ out.result.column = c
           /\ out.result.row = lowestEmpty(board, c)
           /\ out.engine.board[out.result.row][c] = out.result.player
           /\ getLowestEmptyRow(out.engine, c) = getLowestEmptyRow(Engine, c) - 1
  /\ \A r \in Rows, c \in Columns :
       board[r][c] # Empty => \A below \in (r + 1)..(rows - 1) : board[below][c] # Empty

\* a move has just filled its column
C2_Witness ==
  /\ called.op = "makeMove"
  /\ returned # NullResult
  /\ returned.row = 0
  /\ getLowestEmptyRow(Engine, returned.column) = -1

(***************************************************************************)
(* C3  Turn alternation: the log entry at (0-based) index i carries player *)
(* (i mod 2) + 1, and the current player is 1 on an empty log and the      *)
(* opponent of the last mover otherwise.                                   *)
(***************************************************************************)
C3_TurnAlternation ==
  /\ \A i \in 1..Len(moveHistory) : moveHistory[i].player = ((i - 1) % 2) + 1
  /\ getCurrentPlayer(Engine) =
       IF moveHistory = << >> THEN 1 ELSE 3 - moveHistory[Len(moveHistory)].player

\* player 1 has just made the third or a later move
C3_Witness ==
  /\ called.op = "makeMove"
  /\ returned # NullResult
  /\ returned.player = 1
  /\ Len(moveHistory) >= 3

(***************************************************************************)
(* C4  Win detection completeness: an accepted move whose token lies on 4  *)
(* contiguous cells of the mover along an axis, at any position of the     *)
(* run, is reported as a win of the mover.                                 *)
(***************************************************************************)
C4_WinCompleteness ==
  \A c \in Columns :
    LET out == makeMove(Engine, c) IN
      ( /\ Accepts(c)
        /\ onRun(out.engine.board, out.result.row, c, out.result.player) )
      => /\ out.result.type = "win"
         /\ out.engine.gameOver
         /\ out.engine.winner = out.result.player

\* a move has just completed a diagonal run from an interior cell of it
C4_Witness ==
  /\ called.op = "makeMove"
  /\ returned.type = "win"
  /\ \E d \in { <<1, 1>>, <<1, -1>> }, k \in 1..2 :
       onRunAt(board, returned.row, returned.column, returned.player, d, k, 4)

(***************************************************************************)
(* C5  No false win: a move is reported as a win only if its token lies on *)
(* 4 contiguous cells of the mover, and the winner always owns such a run  *)
(* through the last token placed.                                          *)
(***************************************************************************)
C5_NoFalseWin ==
  /\ \A c \in Columns :
       LET out == makeMove(Engine, c) IN
         ( \/ out.result.type = "win"
           \/ out.engine.winner # Engine.winner )
         => /\ out.engine.winner = out.result.player
            /\ onRun(out.engine.board, out.result.row, c, out.result.player)
  /\ winner # NoWinner =>
       /\ moveHistory # << >>
       /\ LET last == moveHistory[Len(moveHistory)]
          IN  last.player = winner /\ onRun(board, last.row, last.column, winner)

\* a move has just made three in a row that an opponent token blocks, and
\* the game goes on
C5_Witness ==
  /\ called.op = "makeMove"
  /\ returned.type = "move"
  /\ ~gameOver
  /\ \E d \in axes, k \in 0..2 :
       /\ onRunAt(board, returned.row, returned.column, returned.player, d, k, 3)
       /\ \E s \in { -1, 1 } :
            LET j == IF s = 1 THEN 3 - k ELSE -1 - k
                r == returned.row + j * d[1]
                c == returned.column + j * d[2]
            IN  r \in Rows /\ c \in Columns /\ board[r][c] = 3 - returned.player

(***************************************************************************)
(* C6  Draw exactness: an accepted move is reported as a draw (type draw,  *)
(* isDraw and isGameOver true, winner null) exactly when it fills the last *)
(* empty cell and its token lies on no run of 4; while a cell is empty and *)
(* there is no winner, isGameOver and isDraw are false.                    *)
(***************************************************************************)
C6_DrawExactness ==
  /\ \A c \in Columns :
       LET out      == makeMove(Engine, c)
           filled   == occupied(out.engine.board) = Rows \X Columns
           reported == /\ out.result.type = "draw"
                       /\ out.engine.isDrawn
                       /\ out.engine.gameOver
                       /\ out.engine.winner = NoWinner
       IN  Accepts(c) =>
             /\ reported <=>
                  ( filled /\ ~onRun(out.engine.board, out.result.row, c, out.result.player) )
             /\ ~reported => ( out.result.type # "draw" /\ ~out.engine.isDrawn )
  /\ ( occupied(board) # Rows \X Columns /\ winner = NoWinner )
       => ( ~gameOver /\ ~isDrawn )

\* a move has just filled the board and drawn the game
C6_Witness ==
  /\ called.op = "makeMove"
  /\ returned.type = "draw"
  /\ isDrawn
  /\ occupied(board) = Rows \X Columns

(***************************************************************************)
(* C7  Win takes precedence over draw: an accepted move that fills the     *)
(* last empty cell and whose token lies on a run of 4 is a win of the      *)
(* mover; isDraw stays false and the events are move, win (no draw).       *)
(***************************************************************************)
C7_WinBeforeDraw ==
  \A c \in Columns :
    LET out == makeMove(Engine, c) IN
      ( /\ Accepts(c)
        /\ occupied(out.engine.board) = Rows \X Columns
        /\ onRun(out.engine.board, out.result.row, c, out.result.player) )
      => /\ out.result.type = "win"
         /\ out.engine.winner = out.result.player
         /\ out.engine.gameOver
         /\ ~out.engine.isDrawn
         /\ kinds(out.events) = << "move", "win" >>

\* a move has just filled the board and won the game
C7_Witness ==
  /\ called.op = "makeMove"
  /\ returned.type = "win"
  /\ occupied(board) = Rows \X Columns
  /\ kinds(events) = << "move", "win" >>

(***************************************************************************)
(* C8  Won and Drawn exclude each other and freeze the grid: winner is     *)
(* never non-null while isDraw is true; while isGameOver is true every     *)
(* makeMove is rejected and leaves the engine as it is, so that the grid   *)
(* and the log change only through undoMove or reset.                      *)
(***************************************************************************)
C8_Exclusive ==
  /\ ~(winner # NoWinner /\ isDrawn)
  /\ gameOver =>
       \A c \in -1..columns :
         LET out == makeMove(Engine, c)
         IN  out.result = NullResult /\ out.engine = Engine /\ out.events = << >>

C8_Frozen ==
  ( gameOver /\ (board' # board \/ moveHistory' # moveHistory) )
    => called'.op \in { "undoMove", "reset" }

C8_ExclusiveAndFrozen == []C8_Exclusive /\ [][C8_Frozen]_vars

\* a move into a column with room has just been rejected in a finished game
C8_Witness ==
  /\ gameOver
  /\ called.op = "makeMove"
  /\ returned = NullResult
  /\ called.column \in Columns
  /\ board[0][called.column] = Empty

(***************************************************************************)
(* C9  Undo is the inverse of move: undoMove right after an accepted       *)
(* makeMove(c) restores the grid, the log, the current player and the      *)
(* status (isGameOver, isDraw, winner, winning positions).                 *)
(***************************************************************************)
C9_UndoInvertsMove ==
  \A c \in Columns :
    LET moved  == makeMove(Engine, c)
        undone == undoMove(moved.engine)
    IN  Accepts(c) =>
          /\ undone.engine = Engine
          /\ getCurrentPlayer(undone.engine) = getCurrentPlayer(Engine)
          /\ undone.result = moved.result

\* a winning move has just been undone
C9_Witness ==
  /\ called.op = "undoMove"
  /\ returned.type = "win"
  /\ Len(returned.winningPositions) >= 4

(***************************************************************************)
(* C10  After a successful undoMove the game is in progress (isGameOver    *)
(* and isDraw false, winner null, no winning positions), the undone cell   *)
(* is empty, the log is one entry shorter and a makeMove on the undone     *)
(* column is accepted.                                                     *)
(***************************************************************************)
C10_UndoReopens ==
  moveHistory # << >> =>
    LET out == undoMove(Engine)
        u   == out.result
    IN  /\ u = moveHistory[Len(moveHistory)]
        /\ ~out.engine.gameOver
        /\ ~out.engine.isDrawn
        /\ out.engine.winner = NoWinner
        /\ out.engine.winningPositions = << >>
        /\ out.engine.board[u.row][u.column] = Empty
        /\ Len(out.engine.moveHistory) = Len(moveHistory) - 1
        /\ makeMove(out.engine, u.column).result # NullResult

\* a drawing move has just been undone
C10_Witness ==
  /\ called.op = "undoMove"
  /\ returned.type = "draw"
  /\ ~gameOver
  /\ board[returned.row][returned.column] = Empty

(***************************************************************************)
(* C11  A rejected makeMove is a no-op: when the game is over, or the      *)
(* column is outside [0, columns), or the column is full, makeMove returns *)
(* null, leaves the engine as it is and dispatches no event.               *)
(***************************************************************************)
columnFull(b, column) == \A r \in Rows : b[r][column] # Empty

C11_RejectedIsNoOp ==
  \A c \in -1..columns :
    LET out == makeMove(Engine, c) IN
      /\ ( gameOver \/ c \notin Columns \/ columnFull(board, c) )
           => out.result = NullResult
      /\ out.result = NullResult
           => ( /\ out.engine = Engine
                /\ getCurrentPlayer(out.engine) = getCurrentPlayer(Engine)
                /\ out.events = << >> )

\* a move into a full column has just been rejected in a game in progress
C11_Witness ==
  /\ called.op = "makeMove"
  /\ returned = NullResult
  /\ events = << >>
  /\ ~gameOver
  /\ called.column \in Columns
  /\ columnFull(board, called.column)

(***************************************************************************)
(* C12  undoMove on an empty log is a no-op: it returns null, leaves the   *)
(* engine as it is and dispatches no undo event.                           *)
(***************************************************************************)
C12_UndoOnEmptyIsNoOp ==
  moveHistory = << >> =>
    LET out == undoMove(Engine)
    IN  /\ out.result = NullResult
        /\ out.engine = Engine
        /\ out.events = << >>

\* undoMove has just been called on an empty log
C12_Witness ==
  /\ called.op = "undoMove"
  /\ returned = NullResult
  /\ moveHistory = << >>
  /\ events = << >>

(***************************************************************************)
(* C13  reset yields the initial state: every cell empty, empty log,       *)
(* current player 1, status in progress; rows and columns are unchanged    *)
(* and exactly one reset event is dispatched.                              *)
(***************************************************************************)
C13_ResetYieldsInitial ==
  LET out == reset(Engine)
  IN  /\ out.engine.rows = rows
      /\ out.engine.columns = columns
      /\ DOMAIN out.engine.board = Rows
      /\ \A r \in Rows :
           /\ DOMAIN out.engine.board[r] = Columns
           /\ \A c \in Columns : out.engine.board[r][c] = Empty
      /\ out.engine.moveHistory = << >>
      /\ getCurrentPlayer(out.engine) = 1
      /\ ~out.engine.gameOver
      /\ ~out.engine.isDrawn
      /\ out.engine.winner = NoWinner
      /\ out.engine.winningPositions = << >>
      /\ kinds(out.events) = << "reset" >>

\* reset has just been called
C13_Witness ==
  /\ called.op = "reset"
  /\ kinds(events) = << "reset" >>
  /\ occupied(board) = {}
  /\ moveHistory = << >>

(***************************************************************************)
(* C14  Event sequence of makeMove: an accepted move dispatches one move   *)
(* event; a winning move then one win event, a drawing move then one draw  *)
(* event; never both, and neither for a move after which the game goes on. *)
(***************************************************************************)
C14_MoveEventSequence ==
  \A c \in Columns :
    LET out == makeMove(Engine, c) IN
      Accepts(c) =>
        /\ out.engine.winner # NoWinner => kinds(out.events) = << "move", "win" >>
        /\ out.engine.isDrawn => kinds(out.events) = << "move", "draw" >>
        /\ ~out.engine.gameOver => kinds(out.events) = << "move" >>
        /\ out.engine.gameOver => ( out.engine.winner # NoWinner \/ out.engine.isDrawn )

\* a drawing move has just dispatched move, then draw
C14_Witness ==
  /\ called.op = "makeMove"
  /\ isDrawn
  /\ kinds(events) = << "move", "draw" >>

(***************************************************************************)
(* C15  Atomicity as seen by handlers: a callback invoked for the move     *)
(* event of a move that ends the game receives the finalized record (type  *)
(* win or draw, winning line attached) and reads the final status from the *)
(* accessors.                                                              *)
(***************************************************************************)
C15_HandlersSeeFinalResult ==
  \A i \in 1..Len(events) :
    ( /\ called.op = "makeMove"
      /\ returned.type \in { "win", "draw" }
      /\ events[i].kind = "move"
      /\ events[i].invoked # << >> )
    => /\ events[i].data = returned
       /\ events[i].seen = status(Engine)

(***************************************************************************)
(* C16  Dispatch is ordered: for every event the callbacks invoked are the *)
(* callbacks subscribed to its kind, each once, in the order in which they *)
(* were registered.                                                        *)
(***************************************************************************)
C16_InvokedOnceInOrder ==
  \A i \in 1..Len(events) : events[i].invoked = events[i].subscribed

(***************************************************************************)
(* C17  Dispatch uses a stable snapshot: the callbacks invoked for an      *)
(* event are exactly those subscribed when its dispatch started, whatever  *)
(* the callbacks subscribe or unsubscribe during the dispatch.             *)
(***************************************************************************)
members(seq) == { seq[i] : i \in 1..Len(seq) }

C17_StableSnapshot ==
  \A i \in 1..Len(events) : members(events[i].invoked) = members(events[i].subscribed)

(***************************************************************************)
(* C18  A successful undoMove dispatches exactly one undo event whose      *)
(* payload is the removed record; when the removed move was a win the      *)
(* payload carries the winning line reported for it, while the winning     *)
(* positions of the engine are cleared.                                    *)
(***************************************************************************)
C18_UndoPayload ==
  moveHistory # << >> =>
    LET out  == undoMove(Engine)
        last == moveHistory[Len(moveHistory)]
    IN  /\ kinds(out.events) = << "undo" >>
        /\ out.events[1].data = last
        /\ out.result = last
        /\ board[last.row][last.column] = last.player
        /\ winner # NoWinner =>
             /\ out.events[1].data.type = "win"
             /\ out.events[1].data.winningPositions = winningPositions
             /\ Len(winningPositions) >= 4
             /\ out.engine.winningPositions = << >>
        /\ isDrawn => out.events[1].data.type = "draw"
        /\ ~gameOver => out.events[1].data.type = "move"

\* the undo event of a winning move has just been dispatched
C18_Witness ==
  /\ called.op = "undoMove"
  /\ kinds(events) = << "undo" >>
  /\ events[1].data.type = "win"
  /\ Len(events[1].data.winningPositions) >= 4
  /\ winningPositions = << >>

(***************************************************************************)
(* C19  The winning line of a win is exactly the maximal contiguous run of *)
(* the winner along one axis through the placed cell: it holds the placed  *)
(* cell and every cell of the run (more than 4 when more are connected),   *)
(* no other cell, and no cell twice.                                       *)
(***************************************************************************)
\* the cells of the maximal run of player p through (row, col) along axis d
runCells(b, row, col, p, d) ==
  LET reach == { k \in -(rows + columns)..(rows + columns) :
                   \A j \in (IF k < 0 THEN k ELSE 0)..(IF k < 0 THEN 0 ELSE k) :
                     LET r == row + j * d[1]
                         c == col + j * d[2]
                     IN  r \in Rows /\ c \in Columns /\ b[r][c] = p }
  IN  { << row + k * d[1], col + k * d[2] >> : k \in reach }

cellsOf(line) == { << line[i].row, line[i].col >> : i \in 1..Len(line) }

C19_LineIsMaximalRun ==
  \A c \in Columns :
    LET out  == makeMove(Engine, c)
        line == out.result.winningPositions
    IN  out.result.type = "win" =>
          /\ out.engine.winningPositions = line
          /\ << out.result.row, c >> \in cellsOf(line)
          /\ Cardinality(cellsOf(line)) = Len(line)
          /\ \E d \in axes :
               LET run == runCells(out.engine.board, out.result.row, c, out.result.player, d)
               IN  Cardinality(run) >= 4 /\ cellsOf(line) = run

\* a move has just connected more than four cells
C19_Witness ==
  /\ called.op = "makeMove"
  /\ returned.type = "win"
  /\ Len(returned.winningPositions) >= 5
  /\ winningPositions = returned.winningPositions

(***************************************************************************)
(* C20  Axis precedence: when a move completes runs of at least 4 on       *)
(* several axes, the line reported is that of the first such axis in the   *)
(* order horizontal, vertical, diagonal (1,1), diagonal (1,-1).            *)
(***************************************************************************)
axisOrder == << <<0, 1>>, <<1, 0>>, <<1, 1>>, <<1, -1>> >>

\* the axes, by their place in the order, on which (row, col) lies on a run
qualifying(b, row, col, p) ==
  { i \in 1..4 : Cardinality(runCells(b, row, col, p, axisOrder[i])) >= 4 }

C20_AxisPrecedence ==
  \A c \in Columns :
    LET out == makeMove(Engine, c)
        q   == qualifying(out.engine.board, out.result.row, c, out.result.player)
    IN  ( Accepts(c) /\ q # {} ) =>
          LET first == CHOOSE i \in q : \A j \in q : i <= j
          IN  /\ out.result.type = "win"
              /\ cellsOf(out.result.winningPositions) =
                   runCells(out.engine.board, out.result.row, c, out.result.player,
                            axisOrder[first])
              /\ out.engine.winningPositions = out.result.winningPositions

\* a move has just completed runs on two axes
C20_Witness ==
  /\ called.op = "makeMove"
  /\ returned.type = "win"
  /\ Cardinality(qualifying(board, returned.row, returned.column, returned.player)) >= 2

(***************************************************************************)
(* C21  The winning line is an ordered sequence along its axis: each entry *)
(* after the first is the entry before it moved by the direction vector of *)
(* the axis, whichever cell of the run was placed last.                    *)
(***************************************************************************)
orderedAlong(line, d) ==
  \A i \in 1..(Len(line) - 1) :
    /\ line[i + 1].row = line[i].row + d[1]
    /\ line[i + 1].col = line[i].col + d[2]

C21_LineOrderedAlongAxis ==
  ( called.op = "makeMove" /\ returned.type = "win" )
    => \E d \in axes : orderedAlong(returned.winningPositions, d)

(***************************************************************************)
(* C22  getBoard returns a deep copy: a write to any cell of a grid it     *)
(* returned changes neither the grid of the engine nor the result of a     *)
(* later getBoard, isValidMove, getLowestEmptyRow or makeMove.             *)
(***************************************************************************)
C22_WriteLeavesEngine ==
  called'.op = "writeCell" =>
    /\ board' = board
    /\ Engine' = Engine
    /\ getBoard(Engine').grid = getBoard(Engine).grid
    /\ \A c \in -1..columns :
         /\ isValidMove(Engine', c) = isValidMove(Engine, c)
         /\ getLowestEmptyRow(Engine', c) = getLowestEmptyRow(Engine, c)
         /\ makeMove(Engine', c) = makeMove(Engine, c)

C22_GetBoardIsDeepCopy == [][C22_WriteLeavesEngine]_vars

\* the caller has just written to a cell of a grid returned by getBoard,
\* which now differs from the grid of the engine
C22_Witness ==
  /\ called.op = "writeCell"
  /\ held.kind = "grid"
  /\ held.grid # board
  /\ moveHistory # << >>

(***************************************************************************)
(* C23  The engine hands out no mutable reference to its state: a write to *)
(* the record returned by makeMove or by getLastMove, or to the winning    *)
(* line attached to it, changes neither the entries of the log nor the     *)
(* winning positions the engine reports.                                   *)
(***************************************************************************)
C23_WriteLeavesLog ==
  called'.op \in { "writeType", "pushPosition" } =>
    /\ moveHistory' = moveHistory
    /\ winningPositions' = winningPositions
    /\ getLastMove(Engine') = getLastMove(Engine)

C23_NoMutableReference == [][C23_WriteLeavesLog]_vars

(***************************************************************************)
(* C24  Queries are pure: getBoard, getCurrentPlayer, getLastMove,         *)
(* isValidMove, isColumnFull, getLowestEmptyRow and the status accessors   *)
(* leave grid, log and status as they are and dispatch no event, for every *)
(* argument, columns out of range included.                                *)
(***************************************************************************)
C24_QueryLeavesEngine ==
  called'.op \in Queries =>
    /\ Engine' = Engine
    /\ events' = << >>

C24_QueriesArePure == [][C24_QueryLeavesEngine]_vars

\* getLowestEmptyRow has just been called with the column past the last one
\* on a grid that holds tokens
C24_Witness ==
  /\ called.op = "getLowestEmptyRow"
  /\ called.column = columns
  /\ held.kind = "value"
  /\ held.value = -1
  /\ moveHistory # << >>

(***************************************************************************)
(* C25  resetToMove(index) with 0 <= index < log length - 1 cuts the log   *)
(* to entries 0..index, makes the grid the replay of exactly that prefix   *)
(* and takes the status from the stored type and winning line of entry     *)
(* index; afterwards grid and log agree, the turns alternate, and the game *)
(* continues from the state it was in after that move.                     *)
(***************************************************************************)
\* the engine after k calls of undoMove
RECURSIVE undone(_, _)
undone(e, k) == IF k = 0 THEN e ELSE undone(undoMove(e).engine, k - 1)

C25_ResetToMoveReplaysPrefix ==
  \A index \in 0..(Len(moveHistory) - 2) :
    LET out == resetToMove(Engine, index)
        now == out.engine
        at  == moveHistory[index + 1]
    IN  /\ now.moveHistory = SubSeq(moveHistory, 1, index + 1)
        /\ now.board = replay(rows, columns, moveHistory, index + 1)
        /\ now.rows = rows /\ now.columns = columns
        /\ now.gameOver = (at.type \in { "win", "draw" })
        /\ now.isDrawn = (at.type = "draw")
        /\ now.winner = (IF at.type = "win" THEN at.player ELSE NoWinner)
        /\ now.winningPositions = (IF at.type = "win" THEN at.winningPositions ELSE << >>)
        /\ \A r \in Rows, c \in Columns :
             now.board[r][c] # Empty <=>
               \E i \in 1..(index + 1) : now.moveHistory[i].row = r /\ now.moveHistory[i].column = c
        /\ \A i \in 1..(index + 1) : now.moveHistory[i].player = ((i - 1) % 2) + 1
        /\ getCurrentPlayer(now) = ((index + 1) % 2) + 1
        /\ now = undone(Engine, Len(moveHistory) - 1 - index)
        /\ \A c \in Columns :
             makeMove(now, c) = makeMove(undone(Engine, Len(moveHistory) - 1 - index), c)

\* resetToMove has just cut a log of at least two entries
C25_Witness ==
  /\ called.op = "resetToMove"
  /\ called.column >= 0
  /\ Len(moveHistory) = called.column + 1
  /\ held.kind = "grid"
  /\ held.grid = board

(***************************************************************************)
(* C26  resetToMove is rejected, leaving grid, log and status as they are, *)
(* when the index is outside [0, log length) or is the current last index. *)
(***************************************************************************)
C26_ResetToMoveRejects ==
  \A index \in -1..(Len(moveHistory) + 1) :
    ( index < 0 \/ index >= Len(moveHistory) \/ index = Len(moveHistory) - 1 ) =>
      LET out == resetToMove(Engine, index)
      IN  /\ out.engine = Engine
          /\ out.handle = NoHandle
          /\ out.events = << >>

\* resetToMove has just been rejected for the last index of the log
C26_Witness ==
  /\ called.op = "resetToMove"
  /\ moveHistory # << >>
  /\ called.column = Len(moveHistory) - 1
  /\ held.kind = "none"

(***************************************************************************)
(* C27  getBoardAtMove(i) is a non-mutating preview: it returns the grid   *)
(* as it was after log entry i and changes neither the live grid, the log  *)
(* nor the status.                                                         *)
(***************************************************************************)
C27_GetBoardAtMovePreviews ==
  \A index \in 0..(Len(moveHistory) - 1) :
    LET out == getBoardAtMove(Engine, index)
    IN  /\ out.handle.kind = "grid"
        /\ out.handle.grid = undone(Engine, Len(moveHistory) - 1 - index).board
        /\ out.handle.grid = replay(rows, columns, moveHistory, index + 1)
        /\ out.engine = Engine
        /\ Len(out.engine.moveHistory) = Len(moveHistory)
        /\ out.events = << >>

\* getBoardAtMove has just returned the grid of an earlier move
C27_Witness ==
  /\ called.op = "getBoardAtMove"
  /\ called.column >= 0
  /\ called.column < Len(moveHistory) - 1
  /\ held.kind = "grid"
  /\ held.grid # board

(***************************************************************************)
(* C29  Statistics are counted once per game end: an accepted winning move *)
(* adds exactly 1 to the wins of the winner and leaves the wins of the     *)
(* other player and the draws as they are; a drawing move adds exactly 1   *)
(* to the draws only; a move after which the game goes on changes no       *)
(* counter. This holds after any number of calls of startNewGame: the      *)
(* live engine holds each handler of the controller once.                  *)
(***************************************************************************)
other(p) == 3 - p

C29_StatsCountedOnce ==
  onGameScreen =>
    /\ \A k \in { "move", "win", "draw", "reset" } : Len(eventListeners[k]) = 1
    /\ \A c \in -1..columns :
         LET out == handleMove(Engine, settings, c)
             p   == out.result.player
         IN  /\ out.engine.winner # NoWinner /\ out.result # NullResult =>
               /\ out.result.type = "win"
               /\ out.settings[playerKey(p)].wins = settings[playerKey(p)].wins + 1
               /\ out.settings[playerKey(other(p))].wins = settings[playerKey(other(p))].wins
               /\ out.settings.draws = settings.draws
             /\ out.engine.isDrawn /\ out.result # NullResult =>
               /\ out.result.type = "draw"
               /\ out.settings.draws = settings.draws + 1
               /\ out.settings.player1 = settings.player1
               /\ out.settings.player2 = settings.player2
             /\ ~out.engine.gameOver \/ out.result = NullResult =>
               out.settings = settings

\* player 2 has just won a game after player 1 had won one
C29_Witness ==
  /\ called.op = "handleMove"
  /\ returned.type = "win"
  /\ returned.player = 2
  /\ settings.player2.wins = 1
  /\ settings.player1.wins = 1

(***************************************************************************)
(* C30  Undoing a game-ending move reverts its statistic: after a winning  *)
(* or drawing move followed at once by the undoMove of the controller the  *)
(* wins of both players and the draws are what they were before the move;  *)
(* undoing a move after which the game went on changes no counter.         *)
(***************************************************************************)
C30_UndoRevertsStats ==
  onGameScreen =>
    /\ \A c \in Columns :
         LET move == handleMove(Engine, settings, c)
             undo == controllerUndoMove(move.engine, move.settings)
         IN  move.result # NullResult =>
               /\ undo.result = move.result
               /\ undo.settings = settings
    /\ ~gameOver => controllerUndoMove(Engine, settings).settings = settings

\* the controller has just undone a draw, the only one counted
C30_Witness ==
  /\ called.op = "GameController.undoMove"
  /\ returned.type = "draw"
  /\ settings.draws = 0
  /\ ~gameOver

(***************************************************************************)
(* C31  Returning to an earlier move through the history panel: a click on *)
(* item i below the last index leaves the first i + 1 entries of the log,  *)
(* and for a discarded win or draw the matching counter goes down by one;  *)
(* a click on the last item changes neither the engine nor the counters.   *)
(***************************************************************************)
\* the counter a log entry was counted in, "" for a move the game went on after
counterOf(entry) ==
  IF entry.type = "win" THEN playerKey(entry.player)
  ELSE IF entry.type = "draw" THEN "draws"
  ELSE ""

\* the value of counter k in the settings s
counted(s, k) == IF k = "draws" THEN s.draws ELSE s[k].wins

\* the settings s2 are s with counter k lowered by n and nothing else changed
loweredBy(s, s2, k, n) ==
  \A j \in { "player1", "player2", "draws" } :
    counted(s2, j) = counted(s, j) - (IF j = k THEN n ELSE 0)

tokens(v) == IF v = Empty THEN {} ELSE { v }

C32_DisplayAgreesWithEngine ==
  onGameScreen /\ ~view.isPreviewMode =>
    \A row \in Rows, col \in Columns : view.cells[row][col] = tokens(board[row][col])

(***************************************************************************)
(* C33  Number keys: key k of 1..9 requests a move in column k - 1 and key *)
(* 0 one in column 9.  When the board has no such column, or the column is *)
(* full, or the game is over, the key press changes neither the engine nor *)
(* the statistics; otherwise the token of the player to move lands in that *)
(* column.                                                                 *)
(***************************************************************************)
C33_KeyMapping ==
  onGameScreen =>
    \A key \in 0..9 :
      LET column == IF key = 0 THEN 9 ELSE key - 1
          out    == handleKeyPress(Engine, settings, key)
          closed == IF column \in Columns THEN gameOver \/ isColumnFull(Engine, column)
                    ELSE TRUE
      IN  IF closed
          THEN /\ out.engine = Engine
               /\ out.settings = settings
               /\ out.events = << >>
          ELSE /\ Len(out.engine.moveHistory) = Len(moveHistory) + 1
               /\ out.result.column = column
               /\ out.result.player = getCurrentPlayer(Engine)
               /\ out.engine.board[out.result.row][column] = out.result.player
               /\ board[out.result.row][column] = Empty

\* key 0 has just put a token in the last of ten columns
C33_Witness ==
  /\ called.op = "handleKeyPress"
  /\ called.column = 0
  /\ columns = 10
  /\ returned # NullResult
  /\ returned.column = 9

(***************************************************************************)
(* C34  The terminal move is always the last one: only the last entry of   *)
(* the log has type win or draw; the game is over exactly when the log is  *)
(* not empty and its last entry is a win or a draw; the winner is the      *)
(* player of that entry when it is a win and null otherwise; and the entry *)
(* a move leaves in the log has the type of the record makeMove returns.   *)
(***************************************************************************)
C34_TerminalMoveIsLast ==
  LET n == Len(moveHistory) IN
    /\ \A i \in 1..(n - 1) : moveHistory[i].type = "move"
    /\ gameOver <=> (n > 0 /\ moveHistory[n].type \in { "win", "draw" })
    /\ winner = IF n > 0 /\ moveHistory[n].type = "win"
                THEN moveHistory[n].player
                ELSE NoWinner
    /\ \A c \in Columns :
         LET out == makeMove(Engine, c) IN
           out.result # NullResult =>
             out.engine.moveHistory[n + 1].type = out.result.type

\* player 2 has just won with a move that is not the first of the log
C34_Witness ==
  /\ called.op = "makeMove"
  /\ returned # NullResult
  /\ returned.type = "win"
  /\ winner = 2
  /\ Len(moveHistory) > 1
  /\ moveHistory[Len(moveHistory)].type = "win"

(***************************************************************************)
(* C35  Re-entrant moves cannot pass a finished game: a makeMove called by *)
(* a callback while the move event of a winning or board-filling move is   *)
(* dispatched is rejected, so no entry of the log follows the entry that   *)
(* ended the game.                                                         *)
(***************************************************************************)
C35_NothingAfterTerminalEntry ==
  \A i \in 1..Len(moveHistory) :
    moveHistory[i].type \in { "win", "draw" } => i = Len(moveHistory)

(***************************************************************************)
(* C36  No stuck game and bounded length: while the game is not over some  *)
(* column accepts a move; the log never holds more entries than the board  *)
(* has cells, and when it holds that many the game is over; every accepted *)
(* move makes the log one entry longer.  A run of accepted moves without   *)
(* undo therefore ends the game within rows x columns moves.               *)
(***************************************************************************)
C36_NoStuckGame ==
  /\ ~gameOver => \E c \in Columns : isValidMove(Engine, c) /\ makeMove(Engine, c).result # NullResult
  /\ Len(moveHistory) <= rows * columns
  /\ Len(moveHistory) = rows * columns => gameOver
  /\ \A c \in Columns :
       LET out == makeMove(Engine, c) IN
         out.result # NullResult => Len(out.engine.moveHistory) = Len(moveHistory) + 1

\* a board of twelve cells has just been filled without a win
C36_Witness ==
  /\ rows * columns = 12
  /\ Len(moveHistory) = 12
  /\ isDrawn
  /\ called.op = "makeMove"

(***************************************************************************)
(* C37  The statistics are never negative: after any moves, undos, clicks  *)
(* on the history, restarts and resets of the statistics, the wins of both *)
(* players and the draws are at least 0, and they stay so when the move    *)
(* that ended the game is undone or discarded after the statistics were    *)
(* reset.                                                                  *)
(***************************************************************************)
nonNegative(s) == s.player1.wins >= 0 /\ s.player2.wins >= 0 /\ s.draws >= 0

C37_StatsNeverNegative ==
  /\ nonNegative(settings)
  /\ onGameScreen =>
       /\ nonNegative(controllerUndoMove(Engine, settings).settings)
       /\ \A i \in 0..(Len(moveHistory) - 1) :
            nonNegative(handleHistoryItemClick(Engine, settings, i).settings)

\* the statistics were reset after player 2 won: the win that can still be
\* undone is no longer counted
C37_Witness ==
  /\ called.op = "handleResetStats"
  /\ gameOver
  /\ winner = 2
  /\ settings.player2.wins = 0

(***************************************************************************)
(* C38  Subscription bookkeeping.  After removeEventListener(kind, h) the  *)
(* callback h is not invoked for the next event of that kind, the other    *)
(* callbacks of the kind keep their order and the other kinds their        *)
(* callbacks.  A callback registered twice for a kind is held once and     *)
(* invoked once per event.  A registration or removal for a kind that is   *)
(* no event of the engine changes nothing.  (The invocations are those of  *)
(* a dispatch during which no callback registers h again or removes it.)   *)
(***************************************************************************)
\* how many times h occurs in the sequence s
occurrences(s, h) == Cardinality({ i \in 1..Len(s) : s[i] = h })

\* the callbacks invoked when the engine e dispatches an event of the kind
invokedFor(e, kind) == dispatchEvent(e, kind, NullResult).event.invoked

C39_ColumnPredicatesAgree ==
  /\ \A c \in Columns :
       /\ isValidMove(Engine, c) <=> ~isColumnFull(Engine, c)
       /\ isValidMove(Engine, c) <=> getLowestEmptyRow(Engine, c) # -1
  /\ \A c \in -1..columns :
       ~rejects(Engine, c) => getLowestEmptyRow(Engine, c) # -1

\* one column is filled to the top while the game goes on in the other one
C39_Witness ==
  /\ ~gameOver
  /\ \E c \in Columns : isColumnFull(Engine, c) /\ getLowestEmptyRow(Engine, c) = -1
  /\ \E c \in Columns : isValidMove(Engine, c) /\ getLowestEmptyRow(Engine, c) > 0

(***************************************************************************)
(* C40  updateSettings merges one level deep and keeps everything else:    *)
(* an update of one field of a player (name, color or wins) leaves the     *)
(* other fields of that player, the other player, the board and the draws  *)
(* as they were, so saving a name or starting a game from the form leaves  *)
(* the wins and the draws unchanged.                                       *)
(***************************************************************************)
\* the update of `field` of player n to v changes that field alone
mergesField(n, field, v) ==
  LET out == updateSettings(settings, playerKey(n) :> object(field :> v)) IN
    /\ out[playerKey(n)] = [ settings[playerKey(n)] EXCEPT ![field] = v ]
    /\ out[playerKey(other(n))] = settings[playerKey(other(n))]
    /\ out.board = settings.board
    /\ out.draws = settings.draws

C40_UpdateSettingsMerges ==
  /\ \A n \in 1..2 :
       /\ \A name \in Names : mergesField(n, "name", name)
       /\ mergesField(n, "color", DEFAULT_SETTINGS.board.color)
       /\ \A wins \in 0..MaxStat : mergesField(n, "wins", wins)
  /\ LET out == updateSettings(settings, "draws" :> scalar(0)) IN
       /\ out.draws = 0
       /\ out.player1 = settings.player1
       /\ out.player2 = settings.player2
       /\ out.board = settings.board
  /\ \A n \in 1..2, name \in Names :
       LET out == updateSettings(settings, nameUpdate(n, name)) IN
         /\ out.player1.wins = settings.player1.wins
         /\ out.player2.wins = settings.player2.wins
         /\ out.draws = settings.draws
  /\ \A name1 \in Names, name2 \in Names, d \in FormBoards :
       LET out == startGame(Engine, settings, name1, name2, d[1], d[2]).settings IN
         /\ out.player1.wins = settings.player1.wins
         /\ out.player2.wins = settings.player2.wins
         /\ out.draws = settings.draws
         /\ out.player1.name = name1
         /\ out.board.rows = d[1]

\* the name of player 1 has just been saved while a win of player 1 and a
\* draw are counted
C40_Witness ==
  /\ called.op = "saveName"
  /\ called.column = 1
  /\ settings.player1.name = "Bob"
  /\ settings.player1.wins = 1
  /\ settings.draws = 1

====
